---- MODULE Spec2Model ----
(***************************************************************************)
(* State machine of the prover storage manager's snapshot layer:           *)
(*   - sov-schema-db: SchemaBatch, DB::get, DB::write_schemas              *)
(*   - sov-prover-storage-manager: SnapshotManager, SnapshotManagerIter    *)
(* One schema (the tests' DummyStateSchema, keys and values both           *)
(* DummyField) is stored in one column family of the DB. Snapshots and the *)
(* DB hold encoded keys and values; the typed calls encode and decode.     *)
(***************************************************************************)
EXTENDS Integers, Sequences, FiniteSets, TLC

(* ------------------------------ bounds -------------------------------- *)
\* Snapshot ids are 1..MaxId.
MaxId == 3
\* DummyField values (used as keys and as values) are 1..MaxField.
MaxField == 2
\* The DB and the registered snapshots hold at most MaxData entries in total.
MaxData == 2

\* A SchemaBatch holds at most MaxBatchLen rows.
MaxBatchLen == 3

\* The threads that fill one SchemaBatch are 1..MaxProducers.
MaxProducers == 2

SnapshotIds == 1..MaxId
Fields == 1..MaxField
Producers == 1..MaxProducers

(* ------------------------------ values -------------------------------- *)
\* Option<T>: None is the empty tuple, Some(v) the one-element tuple.
None == <<>>
Some(v) == <<v>>

\* Result of a call: Ok(value), Err(message) or a panic with its message.
Ok(v) == <<"ok", v>>
Err(msg) == <<"err", msg>>
Panic(msg) == <<"panic", msg>>
Unit == <<>>

MSG_DOUBLE_SAVE == "Attempt to double save same snapshot"
MSG_COMMIT_UNKNOWN == "Attempt to commit unknown snapshot"
MSG_INCONSISTENCY == "Inconsistency between self.snapshots and self.to_parent"
MSG_CF_NOT_FOUND == "DB::cf_handle not found for column family name"
MSG_IO == "rocksdb write failed"

\* The column family of the schema the manager is queried with.
DUMMY_STATE_CF == "dummy_state_cf"

MSG_DECODE == "failed to fill whole buffer"

\* The codec of DummyField: the u32 as FIELD_BYTES bytes, most significant first.
FIELD_BYTES == 4
BYTE == 256

encode_field(field) ==
    [i \in 1..FIELD_BYTES |-> (field \div (BYTE ^ (FIELD_BYTES - i))) % BYTE]

\* The number a byte string spells, most significant byte first.
RECURSIVE BigEndian(_)
BigEndian(bytes) ==
    IF bytes = <<>> THEN 0
    ELSE BigEndian(SubSeq(bytes, 1, Len(bytes) - 1)) * BYTE + bytes[Len(bytes)]

\* Decoding reads FIELD_BYTES bytes and fails on a shorter string.
decode_field(bytes) ==
    IF Len(bytes) < FIELD_BYTES THEN Err(MSG_DECODE)
    ELSE Ok(BigEndian(SubSeq(bytes, 1, FIELD_BYTES)))

\* KeyCodec and ValueCodec of DummyStateSchema.
encode_key(key) == encode_field(key)
decode_key(bytes) == decode_field(bytes)
encode_value(value) == encode_field(value)
decode_value(bytes) == decode_field(bytes)

\* SchemaKey and SchemaValue: the encoded keys and values of the schema.
SchemaKeys == {encode_key(key) : key \in Fields}
SchemaValues == {encode_value(value) : value \in Fields}

\* Operation of a snapshot on one key.
Put(value) == <<"Put", value>>
Delete == <<"Delete">>
Operations == {Put(v) : v \in SchemaValues} \cup {Delete}

\* WriteOp of a SchemaBatch.
WriteOpValue(key, value) == <<"Value", key, value>>
WriteOpDeletion(key) == <<"Deletion", key>>

\* Partial maps from keys to T.
PartialMaps(K, T) == UNION {[D -> T] : D \in SUBSET K}

\* The contents a frozen snapshot can have: at most one operation per key.
FrozenContents == PartialMaps(SchemaKeys, Operations)

\* The contents one column family can have.
CfContents == PartialMaps(SchemaKeys, SchemaValues)

SetMax(S) == CHOOSE m \in S : \A x \in S : x <= m

\* Ord of Vec<u8>: byte strings compare lexicographically.
RECURSIVE cmp(_, _)
cmp(a, b) ==
    IF a = <<>> /\ b = <<>> THEN "Equal"
    ELSE IF a = <<>> THEN "Less"
    ELSE IF b = <<>> THEN "Greater"
    ELSE IF Head(a) < Head(b) THEN "Less"
    ELSE IF Head(a) > Head(b) THEN "Greater"
    ELSE cmp(Tail(a), Tail(b))

\* The greatest of a set of encoded keys.
MaxKey(S) == CHOOSE m \in S : \A x \in S : cmp(x, m) # "Greater"

\* The keys of S in descending order (reverse lexicographic order of the encoded keys).
RECURSIVE Descending(_)
Descending(S) ==
    IF S = {} THEN <<>>
    ELSE LET m == MaxKey(S) IN <<m>> \o Descending(S \ {m})

\* The keys of S in ascending order.
Reverse(s) == [i \in 1..Len(s) |-> s[Len(s) + 1 - i]]
Ascending(S) == Reverse(Descending(S))

\* The Mutex of SchemaBatch.rows unlocked and every producer idle. A thread holds
\* the call it is in (call), the rows its MutexGuard gives access to (guard) and
\* the calls it completed with the place each row took in its family (pushed).
NoProducers ==
    [mutex |-> None,
     threads |-> [p \in Producers |-> [call |-> None, guard |-> None, pushed |-> <<>>]]]

(* ------------------------------- state -------------------------------- *)
VARIABLES
    db,          \* sov_schema_db::DB: column family name -> (key -> value)
    snapshots,   \* SnapshotManager.snapshots: snapshot id -> frozen snapshot
    to_parent,   \* SnapshotManager.to_parent: child snapshot id -> parent snapshot id
    live_iter,   \* the SnapshotManagerIter borrowed from the manager, if any
    yielded,     \* the items the live iterator has returned so far
    ret,         \* the last call: <<operation, arguments, result, id was registered before>>
    terminated,  \* history (SpecLifecycle): the ids that left the registry by discard or commit
    committed,   \* history (SpecOrphan): the ids whose commit_snapshot returned Ok
    schema_batch, \* the SchemaBatch being filled (SpecBatch): column family name -> rows
    producers,   \* the threads that fill the SchemaBatch (SpecProducers) and its Mutex
    reader       \* the get or iter in progress while the graph is written (SpecReaders)

vars == <<db, snapshots, to_parent, live_iter, yielded, ret, terminated, committed,
          schema_batch, producers, reader>>

(* --------------------------- sov-schema-db ---------------------------- *)
\* DB::get_cf_handle: the column family, or an error when the DB has none of that name.
get_cf_handle(store, cf_name) ==
    IF cf_name \in DOMAIN store THEN Ok(cf_name) ELSE Err(MSG_CF_NOT_FOUND)

\* A raw value decoded for the caller: Ok(Some(value)), or the error of the codec.
decode_some(raw_value) ==
    LET decoded == decode_value(raw_value) IN
    IF decoded[1] = "err" THEN decoded ELSE Ok(Some(decoded[2]))

\* Faulty variant of DB_get: the bytes of the key are decoded in place of the
\* bytes found under it.
DB_get_decodes_key(store, cf_name, schema_key) ==
    LET k == encode_key(schema_key) IN
    IF get_cf_handle(store, cf_name)[1] = "err" THEN get_cf_handle(store, cf_name)
    ELSE IF k \in DOMAIN store[cf_name] THEN decode_some(k)
    ELSE Ok(None)

\* DB::get: the key is encoded, the column family read, and the raw value
\* found under the encoded key decoded.
DB_get(store, cf_name, schema_key) ==
    LET k == encode_key(schema_key) IN
    IF get_cf_handle(store, cf_name)[1] = "err" THEN get_cf_handle(store, cf_name)
    ELSE IF k \in DOMAIN store[cf_name] THEN decode_some(store[cf_name][k])
    ELSE Ok(None)

\* Faulty variant of ApplyWriteOp: a Deletion leaves the key in place.
ApplyWriteOp_keeps_deleted(cf, write_op) ==
    IF write_op[1] = "Value"
    THEN [k \in DOMAIN cf \cup {write_op[2]} |->
             IF k = write_op[2] THEN write_op[3] ELSE cf[k]]
    ELSE cf

\* One write operation applied to the contents of a column family.
ApplyWriteOp(cf, write_op) ==
    IF write_op[1] = "Value"
    THEN [k \in DOMAIN cf \cup {write_op[2]} |->
             IF k = write_op[2] THEN write_op[3] ELSE cf[k]]
    ELSE [k \in DOMAIN cf \ {write_op[2]} |-> cf[k]]

\* Faulty variant of ApplyRows: the rows are applied last to first.
RECURSIVE ApplyRows_last_first(_, _)
ApplyRows_last_first(cf, rows) ==
    IF rows = <<>> THEN cf
    ELSE ApplyWriteOp(ApplyRows_last_first(cf, Tail(rows)), Head(rows))

\* The rows of one column family applied in the order they were added.
RECURSIVE ApplyRows(_, _)
ApplyRows(cf, rows) ==
    IF rows = <<>> THEN cf
    ELSE ApplyRows(ApplyWriteOp(cf, Head(rows)), Tail(rows))

\* Faulty variant of write_schemas: the rows are applied although the write
\* reports a failure.
write_schemas_writes_on_error(store, batch, io_ok) ==
    IF \E cf_name \in DOMAIN batch : cf_name \notin DOMAIN store
    THEN <<Err(MSG_CF_NOT_FOUND), store>>
    ELSE <<IF io_ok THEN Ok(Unit) ELSE Err(MSG_IO),
           [cf_name \in DOMAIN store |->
               IF cf_name \in DOMAIN batch
               THEN ApplyRows(store[cf_name], batch[cf_name])
               ELSE store[cf_name]]>>

\* SchemaBatch::put: key and value are encoded and the row is pushed onto the
\* rows of the schema's column family, which are created on the first row.
SchemaBatch_put(rows, cf_name, key, value) ==
    [name \in DOMAIN rows \cup {cf_name} |->
        IF name = cf_name
        THEN Append(IF name \in DOMAIN rows THEN rows[name] ELSE <<>>,
                    WriteOpValue(encode_key(key), encode_value(value)))
        ELSE rows[name]]

\* SchemaBatch::delete.
SchemaBatch_delete(rows, cf_name, key) ==
    [name \in DOMAIN rows \cup {cf_name} |->
        IF name = cf_name
        THEN Append(IF name \in DOMAIN rows THEN rows[name] ELSE <<>>,
                    WriteOpDeletion(encode_key(key)))
        ELSE rows[name]]

\* Faulty variant of write_schemas: the rows of the families the DB has are
\* written before a missing family is reported.
write_schemas_partial(store, batch, io_ok) ==
    IF ~io_ok THEN <<Err(MSG_IO), store>>
    ELSE <<IF \E cf_name \in DOMAIN batch : cf_name \notin DOMAIN store
           THEN Err(MSG_CF_NOT_FOUND) ELSE Ok(Unit),
           [cf_name \in DOMAIN store |->
               IF cf_name \in DOMAIN batch
               THEN ApplyRows(store[cf_name], batch[cf_name])
               ELSE store[cf_name]]>>

\* DB::write_schemas: every family of the batch needs a handle; the rocksdb
\* write batch is then written atomically, and the write itself can fail.
\* Returns <<result, store afterwards>>.
write_schemas(store, batch, io_ok) ==
    IF \E cf_name \in DOMAIN batch : cf_name \notin DOMAIN store
    THEN <<Err(MSG_CF_NOT_FOUND), store>>
    ELSE IF ~io_ok THEN <<Err(MSG_IO), store>>
    ELSE <<Ok(Unit),
           [cf_name \in DOMAIN store |->
               IF cf_name \in DOMAIN batch
               THEN ApplyRows(store[cf_name], batch[cf_name])
               ELSE store[cf_name]]>>

\* FrozenDbSnapshot::get: the operation the snapshot holds for the encoded key.
Frozen_get(frozen, key) ==
    LET k == encode_key(key) IN
    IF k \in DOMAIN frozen THEN Some(frozen[k]) ELSE None

\* FrozenDbSnapshot::iter: the snapshot's (key, operation) pairs, greatest key first.
Frozen_iter(frozen) ==
    LET keys == Descending(DOMAIN frozen)
    IN [i \in 1..Len(keys) |-> <<keys[i], frozen[keys[i]]>>]

\* DB::raw_iter: the column family's (key, value) pairs, greatest key first.
raw_iter(store, cf_name) ==
    LET keys == Descending(DOMAIN store[cf_name])
    IN [i \in 1..Len(keys) |-> <<keys[i], store[cf_name][keys[i]]>>]

\* From<FrozenDbSnapshot> for SchemaBatch: the snapshot's operations as the rows
\* of the schema's column family.
Frozen_into_batch(frozen) ==
    LET keys == Ascending(DOMAIN frozen)
    IN [cf_name \in {DUMMY_STATE_CF} |->
           [i \in 1..Len(keys) |->
               IF frozen[keys[i]][1] = "Put"
               THEN WriteOpValue(keys[i], frozen[keys[i]][2])
               ELSE WriteOpDeletion(keys[i])]]

(* -------------------------- SnapshotManager --------------------------- *)
\* The map m with key k bound to v (HashMap::insert).
Insert(m, k, v) == [x \in DOMAIN m \cup {k} |-> IF x = k THEN v ELSE m[x]]

\* The map m without key k (HashMap::remove).
Remove(m, k) == [x \in DOMAIN m \ {k} |-> m[x]]

\* Faulty variant of add_snapshot: a second snapshot silently replaces the first.
add_snapshot_overwrites(snaps, snapshot_id, snapshot) ==
    <<Ok(Unit), Insert(snaps, snapshot_id, snapshot)>>

\* Faulty variant of add_snapshot: the registry holds one snapshot at a time, and a
\* snapshot added next to another one is dropped.
add_snapshot_drops_second(snaps, snapshot_id, snapshot) ==
    IF snapshot_id \in DOMAIN snaps
    THEN <<Panic(MSG_DOUBLE_SAVE), Insert(snaps, snapshot_id, snapshot)>>
    ELSE IF DOMAIN snaps # {}
         THEN <<Ok(Unit), snaps>>
         ELSE <<Ok(Unit), Insert(snaps, snapshot_id, snapshot)>>

\* SnapshotManager::add_snapshot: the snapshot is inserted under its id; finding
\* an earlier snapshot under that id is a panic. Returns <<result, snapshots afterwards>>.
add_snapshot(snaps, snapshot_id, snapshot) ==
    IF snapshot_id \in DOMAIN snaps
    THEN <<Panic(MSG_DOUBLE_SAVE), Insert(snaps, snapshot_id, snapshot)>>
    ELSE <<Ok(Unit), Insert(snaps, snapshot_id, snapshot)>>

\* Faulty variant of discard_snapshot: the snapshot stays registered.
discard_snapshot_keeps(snaps, snapshot_id) ==
    <<Ok(Unit), snaps>>

\* Faulty variant of discard_snapshot: an unknown id is a panic.
discard_snapshot_strict(snaps, snapshot_id) ==
    IF snapshot_id \in DOMAIN snaps
    THEN <<Ok(Unit), Remove(snaps, snapshot_id)>>
    ELSE <<Panic("Attempt to discard unknown snapshot"), snaps>>

\* Faulty variant of discard_snapshot: the whole registry is cleared.
discard_snapshot_clears(snaps, snapshot_id) ==
    <<Ok(Unit), <<>>>>

\* SnapshotManager::discard_snapshot. Returns <<result, snapshots afterwards>>.
discard_snapshot(snaps, snapshot_id) ==
    <<Ok(Unit), Remove(snaps, snapshot_id)>>

\* Faulty variant of commit_snapshot: the check is dropped and the unwrap of the removed
\* snapshot panics on an unknown id.
commit_snapshot_unwraps(snaps, store, snapshot_id, io_ok) ==
    IF snapshot_id \notin DOMAIN snaps
    THEN <<Panic("called Option::unwrap() on a None value"), snaps, store>>
    ELSE LET written == write_schemas(store, Frozen_into_batch(snaps[snapshot_id]), io_ok)
         IN <<written[1], Remove(snaps, snapshot_id), written[2]>>

\* Faulty variant of commit_snapshot: the snapshot is written and stays registered.
commit_snapshot_keeps(snaps, store, snapshot_id, io_ok) ==
    IF snapshot_id \notin DOMAIN snaps
    THEN <<Err(MSG_COMMIT_UNKNOWN), snaps, store>>
    ELSE LET written == write_schemas(store, Frozen_into_batch(snaps[snapshot_id]), io_ok)
         IN <<written[1], snaps, written[2]>>

\* Faulty variant of commit_snapshot: the snapshot is taken out of the registry and
\* its batch is not written.
commit_snapshot_skips_write(snaps, store, snapshot_id, io_ok) ==
    IF snapshot_id \notin DOMAIN snaps
    THEN <<Err(MSG_COMMIT_UNKNOWN), snaps, store>>
    ELSE <<IF io_ok THEN Ok(Unit) ELSE Err(MSG_IO), Remove(snaps, snapshot_id), store>>

\* SnapshotManager::commit_snapshot: an unknown id is an error; otherwise the
\* snapshot is taken out of the registry and written to the DB as one batch.
\* Returns <<result, snapshots afterwards, DB afterwards>>.
commit_snapshot(snaps, store, snapshot_id, io_ok) ==
    IF snapshot_id \notin DOMAIN snaps
    THEN <<Err(MSG_COMMIT_UNKNOWN), snaps, store>>
    ELSE LET written == write_schemas(store, Frozen_into_batch(snaps[snapshot_id]), io_ok)
         IN <<written[1], Remove(snaps, snapshot_id), written[2]>>

\* SnapshotManager::contains_snapshot.
contains_snapshot(snaps, snapshot_id) == snapshot_id \in DOMAIN snaps

\* Faulty variant of get: a Delete is skipped like a missing operation, so an older
\* ancestor or the DB answers.
RECURSIVE get_skips_delete(_, _, _, _, _)
get_skips_delete(graph, snaps, store, snapshot_id, key) ==
    IF snapshot_id \notin DOMAIN graph
    THEN DB_get(store, DUMMY_STATE_CF, key)
    ELSE LET parent_snapshot_id == graph[snapshot_id] IN
         IF parent_snapshot_id \notin DOMAIN snaps
         THEN Panic(MSG_INCONSISTENCY)
         ELSE LET operation == Frozen_get(snaps[parent_snapshot_id], key) IN
              IF operation # None /\ operation[1][1] = "Put"
              THEN decode_some(operation[1][2])
              ELSE get_skips_delete(graph, snaps, store, parent_snapshot_id, key)

\* Faulty variant of get: the walk starts at the snapshot of snapshot_id itself.
RECURSIVE get_from_self(_, _, _, _, _)
get_from_self(graph, snaps, store, snapshot_id, key) ==
    IF snapshot_id \in DOMAIN snaps /\ Frozen_get(snaps[snapshot_id], key) # None
    THEN LET operation == Frozen_get(snaps[snapshot_id], key) IN
         IF operation[1][1] = "Put" THEN decode_some(operation[1][2]) ELSE Ok(None)
    ELSE IF snapshot_id \notin DOMAIN graph
         THEN DB_get(store, DUMMY_STATE_CF, key)
         ELSE IF graph[snapshot_id] \notin DOMAIN snaps
              THEN Panic(MSG_INCONSISTENCY)
              ELSE get_from_self(graph, snaps, store, graph[snapshot_id], key)

\* Faulty variant of get: a parent missing from the registry is passed over.
RECURSIVE get_skips_missing(_, _, _, _, _)
get_skips_missing(graph, snaps, store, snapshot_id, key) ==
    IF snapshot_id \notin DOMAIN graph
    THEN DB_get(store, DUMMY_STATE_CF, key)
    ELSE LET parent_snapshot_id == graph[snapshot_id] IN
         IF parent_snapshot_id \notin DOMAIN snaps
         THEN get_skips_missing(graph, snaps, store, parent_snapshot_id, key)
         ELSE LET operation == Frozen_get(snaps[parent_snapshot_id], key) IN
              IF operation # None
              THEN IF operation[1][1] = "Put"
                   THEN decode_some(operation[1][2])
                   ELSE Ok(None)
              ELSE get_skips_missing(graph, snaps, store, parent_snapshot_id, key)

\* QueryManager::get of SnapshotManager: walks from the parent of snapshot_id
\* towards the DB; the first snapshot holding an operation for the key decides.
RECURSIVE get(_, _, _, _, _)
get(graph, snaps, store, snapshot_id, key) ==
    IF snapshot_id \notin DOMAIN graph
    THEN DB_get(store, DUMMY_STATE_CF, key)
    ELSE LET parent_snapshot_id == graph[snapshot_id] IN
         IF parent_snapshot_id \notin DOMAIN snaps
         THEN Panic(MSG_INCONSISTENCY)
         ELSE LET operation == Frozen_get(snaps[parent_snapshot_id], key) IN
              IF operation # None
              THEN IF operation[1][1] = "Put"
                   THEN decode_some(operation[1][2])
                   ELSE Ok(None)
              ELSE get(graph, snaps, store, parent_snapshot_id, key)

(* ------------------------ SnapshotManagerIter ------------------------- *)
\* Faulty variant of iter_walk: a parent missing from the registry ends the walk
\* like the root of the graph.
RECURSIVE iter_walk_stops_at_missing(_, _, _, _)
iter_walk_stops_at_missing(graph, snaps, snapshot_id, snapshot_iterators) ==
    IF snapshot_id \notin DOMAIN graph \/ graph[snapshot_id] \notin DOMAIN snaps
    THEN Ok(snapshot_iterators)
    ELSE iter_walk_stops_at_missing(graph, snaps, graph[snapshot_id],
             Append(snapshot_iterators, Frozen_iter(snaps[graph[snapshot_id]])))

\* The ancestor walk of SnapshotManager::iter: the iterator of every ancestor
\* is pushed, nearest first; an ancestor missing from the registry is a panic.
RECURSIVE iter_walk(_, _, _, _)
iter_walk(graph, snaps, snapshot_id, snapshot_iterators) ==
    IF snapshot_id \notin DOMAIN graph
    THEN Ok(snapshot_iterators)
    ELSE LET parent_snapshot_id == graph[snapshot_id] IN
         IF parent_snapshot_id \notin DOMAIN snaps
         THEN Panic(MSG_INCONSISTENCY)
         ELSE iter_walk(graph, snaps, parent_snapshot_id,
                        Append(snapshot_iterators, Frozen_iter(snaps[parent_snapshot_id])))

\* Faulty variant of iter: the iterators are not reversed, the nearest ancestor comes first.
iter_not_reversed(graph, snaps, store, snapshot_id) ==
    LET walked == iter_walk(graph, snaps, snapshot_id, <<>>) IN
    IF walked[1] = "panic" THEN walked
    ELSE IF get_cf_handle(store, DUMMY_STATE_CF)[1] = "err"
    THEN get_cf_handle(store, DUMMY_STATE_CF)
    ELSE Ok([db_iter |-> raw_iter(store, DUMMY_STATE_CF),
             snapshot_iterators |-> walked[2]])

\* SnapshotManager::iter: the walk, the iterators reversed (oldest first), then
\* the DB iterator. The result holds the fields of SnapshotManagerIter.
iter(graph, snaps, store, snapshot_id) ==
    LET walked == iter_walk(graph, snaps, snapshot_id, <<>>) IN
    IF walked[1] = "panic" THEN walked
    ELSE IF get_cf_handle(store, DUMMY_STATE_CF)[1] = "err"
    THEN get_cf_handle(store, DUMMY_STATE_CF)
    ELSE Ok([db_iter |-> raw_iter(store, DUMMY_STATE_CF),
             snapshot_iterators |-> Reverse(walked[2])])

\* DataLocation
LocationDb == <<"Db">>
LocationSnapshot(idx) == <<"Snapshot", idx>>

\* The scan of the snapshot iterators for the greatest peeked key: max_values
\* holds the (location, key) pairs of the sources whose head is the greatest so far.
RECURSIVE find_max(_, _, _)
find_max(snapshot_iterators, idx, max_values) ==
    IF idx > Len(snapshot_iterators) THEN max_values
    ELSE IF snapshot_iterators[idx] = <<>>
    THEN find_max(snapshot_iterators, idx + 1, max_values)
    ELSE LET peeked_key == Head(snapshot_iterators[idx])[1] IN
         IF max_values = <<>>
         THEN find_max(snapshot_iterators, idx + 1, <<<<LocationSnapshot(idx), peeked_key>>>>)
         ELSE IF cmp(peeked_key, max_values[1][2]) = "Greater"
         THEN find_max(snapshot_iterators, idx + 1, <<<<LocationSnapshot(idx), peeked_key>>>>)
         ELSE IF cmp(peeked_key, max_values[1][2]) = "Equal"
         THEN find_max(snapshot_iterators, idx + 1,
                       Append(max_values, <<LocationSnapshot(idx), peeked_key>>))
         ELSE find_max(snapshot_iterators, idx + 1, max_values)

\* The iterator at the location moved to its next value.
advance(it, location) ==
    IF location[1] = "Db"
    THEN [it EXCEPT !.db_iter = Tail(@)]
    ELSE [it EXCEPT !.snapshot_iterators[location[2]] = Tail(@)]

\* Faulty variant of advance_all: the tied iterators are left where they are.
advance_all_skipped(it, locations) == it

\* All iterators at the locations moved to their next value.
RECURSIVE advance_all(_, _)
advance_all(it, locations) ==
    IF locations = <<>> THEN it
    ELSE advance_all(advance(it, Head(locations)), Tail(locations))

\* Faulty variant of merge_step: the first of the tied sources decides and the
\* others are moved past the key.
merge_step_first_decides(it) ==
    LET from_db == IF it.db_iter # <<>>
                   THEN <<<<LocationDb, Head(it.db_iter)[1]>>>>
                   ELSE <<>>
        max_values == find_max(it.snapshot_iterators, 1, from_db)
    IN  IF max_values = <<>> THEN <<"break", it, None>>
        ELSE LET locations == [i \in 1..Len(max_values) |-> max_values[i][1]]
                 last_max_location == locations[1]
                 moved == advance_all(it, Tail(locations))
             IN  IF last_max_location[1] = "Db"
                 THEN <<"return", advance(moved, last_max_location),
                        Some(Head(moved.db_iter))>>
                 ELSE LET entry == Head(moved.snapshot_iterators[last_max_location[2]]) IN
                      IF entry[2][1] = "Put"
                      THEN <<"return", advance(moved, last_max_location),
                             Some(<<entry[1], entry[2][2]>>)>>
                      ELSE <<"continue", advance(moved, last_max_location), None>>

\* One pass of the loop of SnapshotManagerIter::next.
\* Returns <<"break" | "return" | "continue", iterator afterwards, item>>.
merge_step(it) ==
    LET from_db == IF it.db_iter # <<>>
                   THEN <<<<LocationDb, Head(it.db_iter)[1]>>>>
                   ELSE <<>>
        max_values == find_max(it.snapshot_iterators, 1, from_db)
    IN  IF max_values = <<>> THEN <<"break", it, None>>
        ELSE LET locations == [i \in 1..Len(max_values) |-> max_values[i][1]]
                 last_max_location == locations[Len(locations)]
                 moved == advance_all(it, SubSeq(locations, 1, Len(locations) - 1))
             IN  IF last_max_location[1] = "Db"
                 THEN <<"return", advance(moved, last_max_location),
                        Some(Head(moved.db_iter))>>
                 ELSE LET entry == Head(moved.snapshot_iterators[last_max_location[2]]) IN
                      IF entry[2][1] = "Put"
                      THEN <<"return", advance(moved, last_max_location),
                             Some(<<entry[1], entry[2][2]>>)>>
                      ELSE <<"continue", advance(moved, last_max_location), None>>

\* SnapshotManagerIter::next: passes of the loop until an item is returned or
\* every source is exhausted. Returns <<iterator afterwards, item>>.
RECURSIVE next(_)
next(it) ==
    LET step == merge_step(it) IN
    IF step[1] = "continue" THEN next(step[2]) ELSE <<step[2], step[3]>>

(* ------------------------------ actions ------------------------------- *)
\* A panic ends the process: nothing runs after it.
Alive == ret[3][1] # "panic"

\* The manager is free when no iterator borrows it.
Free == live_iter = None

\* Number of operations the registered snapshots hold.
RECURSIVE DataSize(_)
DataSize(snaps) ==
    IF DOMAIN snaps = {} THEN 0
    ELSE LET id == CHOOSE x \in DOMAIN snaps : TRUE
         IN Cardinality(DOMAIN snaps[id]) + DataSize(Remove(snaps, id))

\* SnapshotManager::new over a DB that was opened with the schema's column
\* family and filled by earlier batches; the graph starts empty.
Init ==
    /\ db \in [{DUMMY_STATE_CF} -> {cf \in CfContents : Cardinality(DOMAIN cf) <= MaxData}]
    /\ snapshots = <<>>
    /\ to_parent = <<>>
    /\ live_iter = None
    /\ yielded = <<>>
    /\ ret = <<"new", <<>>, Ok(Unit), FALSE>>
    /\ terminated = {}
    /\ committed = {}
    /\ schema_batch = <<>>
    /\ producers = NoProducers
    /\ reader = None

\* One call of add_snapshot.
RegisterSnapshot(snapshot_id, snapshot) ==
    LET r == add_snapshot(snapshots, snapshot_id, snapshot) IN
    /\ Alive /\ Free
    /\ snapshots' = r[2]
    /\ ret' = <<"add_snapshot", <<snapshot_id>>, r[1], snapshot_id \in DOMAIN snapshots>>
    /\ UNCHANGED <<db, to_parent, live_iter, yielded>>

\* add_snapshot within the data budget of the model.
AddSnapshot(snapshot_id, snapshot) ==
    /\ DataSize(Insert(snapshots, snapshot_id, snapshot))
           + Cardinality(DOMAIN db[DUMMY_STATE_CF]) <= MaxData
    /\ RegisterSnapshot(snapshot_id, snapshot)

DiscardSnapshot(snapshot_id) ==
    LET r == discard_snapshot(snapshots, snapshot_id) IN
    /\ Alive /\ Free
    /\ snapshots' = r[2]
    /\ ret' = <<"discard_snapshot", <<snapshot_id>>, r[1], snapshot_id \in DOMAIN snapshots>>
    /\ UNCHANGED <<db, to_parent, live_iter, yielded>>

CommitSnapshot(snapshot_id, io_ok) ==
    LET r == commit_snapshot(snapshots, db, snapshot_id, io_ok) IN
    /\ Alive /\ Free
    /\ snapshots' = r[2]
    /\ db' = r[3]
    /\ ret' = <<"commit_snapshot", <<snapshot_id>>, r[1], snapshot_id \in DOMAIN snapshots>>
    /\ UNCHANGED <<to_parent, live_iter, yielded>>

ContainsSnapshot(snapshot_id) ==
    /\ Alive /\ Free
    /\ ret' = <<"contains_snapshot", <<snapshot_id>>,
                Ok(contains_snapshot(snapshots, snapshot_id)), FALSE>>
    /\ UNCHANGED <<db, snapshots, to_parent, live_iter, yielded>>

Get(snapshot_id, key) ==
    /\ Alive /\ Free
    /\ ret' = <<"get", <<snapshot_id, key>>,
                get(to_parent, snapshots, db, snapshot_id, key), FALSE>>
    /\ UNCHANGED <<db, snapshots, to_parent, live_iter, yielded>>

\* The orchestrator records the parent of a snapshot it creates; ids grow, so a
\* parent is older than its child and the graph stays a forest.
GraphInsert(child, parent) ==
    /\ Alive /\ Free
    /\ parent < child
    /\ to_parent' = Insert(to_parent, child, parent)
    /\ ret' = <<"to_parent.write", <<>>, Ok(Unit), FALSE>>
    /\ UNCHANGED <<db, snapshots, live_iter, yielded>>

\* The orchestrator forgets the parent of a snapshot.
GraphRemove(child) ==
    /\ Alive /\ Free
    /\ child \in DOMAIN to_parent
    /\ to_parent' = Remove(to_parent, child)
    /\ ret' = <<"to_parent.write", <<>>, Ok(Unit), FALSE>>
    /\ UNCHANGED <<db, snapshots, live_iter, yielded>>

\* SnapshotManager::iter: the returned iterator borrows the manager.
Iter(snapshot_id) ==
    LET r == iter(to_parent, snapshots, db, snapshot_id) IN
    /\ Alive /\ Free
    /\ live_iter' = IF r[1] = "ok" THEN Some(r[2]) ELSE None
    /\ yielded' = <<>>
    /\ ret' = <<"iter", <<snapshot_id>>, IF r[1] = "ok" THEN Ok(Unit) ELSE r, FALSE>>
    /\ UNCHANGED <<db, snapshots, to_parent>>

\* One call of next on the live iterator.
IterNext ==
    /\ Alive /\ ~Free
    /\ LET r == next(live_iter[1]) IN
       /\ live_iter' = Some(r[1])
       /\ yielded' = IF r[2] = None THEN yielded ELSE Append(yielded, r[2][1])
       /\ ret' = <<"next", ret[2], Ok(r[2]), FALSE>>
    /\ UNCHANGED <<db, snapshots, to_parent>>

\* The iterator is dropped and the borrow of the manager ends.
IterDrop ==
    /\ Alive /\ ~Free
    /\ live_iter' = None
    /\ yielded' = <<>>
    /\ ret' = <<"drop", ret[2], Ok(Unit), FALSE>>
    /\ UNCHANGED <<db, snapshots, to_parent>>

\* Every call of the manager and every write of the graph; the history of
\* terminations is not recorded.
Next ==
    \/ \E snapshot_id \in SnapshotIds, snapshot \in FrozenContents :
           AddSnapshot(snapshot_id, snapshot) /\ UNCHANGED <<terminated, committed, schema_batch, producers, reader>>
    \/ \E snapshot_id \in SnapshotIds :
           DiscardSnapshot(snapshot_id) /\ UNCHANGED <<terminated, committed, schema_batch, producers, reader>>
    \/ \E snapshot_id \in SnapshotIds, io_ok \in BOOLEAN :
           CommitSnapshot(snapshot_id, io_ok) /\ UNCHANGED <<terminated, committed, schema_batch, producers, reader>>
    \/ \E snapshot_id \in SnapshotIds :
           ContainsSnapshot(snapshot_id) /\ UNCHANGED <<terminated, committed, schema_batch, producers, reader>>
    \/ \E snapshot_id \in SnapshotIds, key \in Fields :
           Get(snapshot_id, key) /\ UNCHANGED <<terminated, committed, schema_batch, producers, reader>>
    \/ \E child \in SnapshotIds, parent \in SnapshotIds :
           GraphInsert(child, parent) /\ UNCHANGED <<terminated, committed, schema_batch, producers, reader>>
    \/ \E child \in SnapshotIds : GraphRemove(child) /\ UNCHANGED <<terminated, committed, schema_batch, producers, reader>>
    \/ \E snapshot_id \in SnapshotIds : Iter(snapshot_id) /\ UNCHANGED <<terminated, committed, schema_batch, producers, reader>>
    \/ IterNext /\ UNCHANGED <<terminated, committed, schema_batch, producers, reader>>
    \/ IterDrop /\ UNCHANGED <<terminated, committed, schema_batch, producers, reader>>

Spec == Init /\ [][Next]_vars

\* The ids that leave the registry in this step join the history.
RecordTerminated ==
    /\ terminated' = terminated \cup (DOMAIN snapshots \ DOMAIN snapshots')
    /\ UNCHANGED <<committed, schema_batch, producers, reader>>

\* The calls that register and terminate snapshots, with the history recorded.
NextLifecycle ==
    \/ \E snapshot_id \in SnapshotIds, snapshot \in FrozenContents :
           AddSnapshot(snapshot_id, snapshot) /\ RecordTerminated
    \/ \E snapshot_id \in SnapshotIds :
           DiscardSnapshot(snapshot_id) /\ RecordTerminated
    \/ \E snapshot_id \in SnapshotIds, io_ok \in BOOLEAN :
           CommitSnapshot(snapshot_id, io_ok) /\ RecordTerminated
    \/ \E snapshot_id \in SnapshotIds :
           ContainsSnapshot(snapshot_id) /\ RecordTerminated

SpecLifecycle == Init /\ [][NextLifecycle]_vars

\* The id whose commit_snapshot returns Ok in this step joins the history.
RecordCommitted ==
    /\ committed' = IF ret'[1] = "commit_snapshot" /\ ret'[3] = Ok(Unit)
                     THEN committed \cup {ret'[2][1]}
                     ELSE committed
    /\ UNCHANGED <<terminated, schema_batch, producers, reader>>

\* Snapshots are registered and committed while the graph keeps its entries,
\* and ids are looked up in between; the history of commits is recorded.
NextOrphan ==
    \/ \E snapshot_id \in SnapshotIds, snapshot \in FrozenContents :
           AddSnapshot(snapshot_id, snapshot) /\ RecordCommitted
    \/ \E snapshot_id \in SnapshotIds, io_ok \in BOOLEAN :
           CommitSnapshot(snapshot_id, io_ok) /\ RecordCommitted
    \/ \E child \in SnapshotIds, parent \in SnapshotIds :
           GraphInsert(child, parent) /\ RecordCommitted
    \/ \E snapshot_id \in SnapshotIds, key \in Fields :
           Get(snapshot_id, key) /\ RecordCommitted

SpecOrphan == Init /\ [][NextOrphan]_vars

(* ----------------------------- SchemaBatch ----------------------------- *)
\* The column families a batch is filled for: the one the DB was opened with
\* and one the DB does not have.
UNKNOWN_CF == "unknown_cf"
BatchFamilies == {DUMMY_STATE_CF, UNKNOWN_CF}

\* Number of rows of a batch.
RECURSIVE BatchLen(_)
BatchLen(rows) ==
    IF DOMAIN rows = {} THEN 0
    ELSE LET name == CHOOSE x \in DOMAIN rows : TRUE
         IN Len(rows[name]) + BatchLen(Remove(rows, name))

BatchPut(cf_name, key, value) ==
    /\ Alive /\ Free
    /\ BatchLen(schema_batch) < MaxBatchLen
    /\ schema_batch' = SchemaBatch_put(schema_batch, cf_name, key, value)
    /\ ret' = <<"put", <<cf_name, key, value>>, Ok(Unit), FALSE>>
    /\ UNCHANGED <<db, snapshots, to_parent, live_iter, yielded>>

BatchDelete(cf_name, key) ==
    /\ Alive /\ Free
    /\ BatchLen(schema_batch) < MaxBatchLen
    /\ schema_batch' = SchemaBatch_delete(schema_batch, cf_name, key)
    /\ ret' = <<"delete", <<cf_name, key>>, Ok(Unit), FALSE>>
    /\ UNCHANGED <<db, snapshots, to_parent, live_iter, yielded>>

\* DB::write_schemas consumes the batch; the next one starts empty.
WriteSchemas(io_ok) ==
    LET r == write_schemas(db, schema_batch, io_ok) IN
    /\ Alive /\ Free
    /\ db' = r[2]
    /\ schema_batch' = <<>>
    /\ ret' = <<"write_schemas", <<schema_batch>>, r[1], FALSE>>
    /\ UNCHANGED <<snapshots, to_parent, live_iter, yielded>>

\* Batches are filled and written to the DB directly.
NextBatch ==
    \/ \E cf_name \in BatchFamilies, key \in Fields, value \in Fields :
           BatchPut(cf_name, key, value) /\ UNCHANGED <<terminated, committed, producers, reader>>
    \/ \E cf_name \in BatchFamilies, key \in Fields :
           BatchDelete(cf_name, key) /\ UNCHANGED <<terminated, committed, producers, reader>>
    \/ \E io_ok \in BOOLEAN : WriteSchemas(io_ok) /\ UNCHANGED <<terminated, committed, producers, reader>>

SpecBatch == Init /\ [][NextBatch]_vars

(* ------------------------ concurrent producers ------------------------ *)
\* Faulty variant of lock: the Mutex is handed out while another thread holds it.
lock_not_exclusive(mutex) == TRUE

\* Mutex::lock: the lock is acquired once no other thread holds it.
lock(mutex) == mutex = None

\* The calls of producers: <<"put", family, key, value>> or <<"delete", family, key>>.
ProducerCalls ==
    {<<"put", cf_name, key, value>> :
        cf_name \in BatchFamilies, key \in Fields, value \in Fields}
    \cup {<<"delete", cf_name, key>> : cf_name \in BatchFamilies, key \in Fields}

\* The rows after the call was applied to them.
Pushed(rows, call) ==
    IF call[1] = "put"
    THEN SchemaBatch_put(rows, call[2], call[3], call[4])
    ELSE SchemaBatch_delete(rows, call[2], call[3])

\* Number of calls that were entered and did not push yet.
InFlight == Cardinality({p \in Producers : producers.threads[p].call # None})

\* A thread enters put or delete: key and value are encoded before the lock
\* is asked for.
ProducerCall(p, call) ==
    /\ Alive /\ Free
    /\ producers.threads[p].call = None
    /\ BatchLen(schema_batch) + InFlight < MaxBatchLen
    /\ producers' = [producers EXCEPT !.threads[p].call = Some(call)]
    /\ UNCHANGED <<db, snapshots, to_parent, live_iter, yielded, ret, schema_batch>>

\* self.rows.lock(): the thread waits for the Mutex and gets the guard of the rows.
ProducerLock(p) ==
    /\ Alive /\ Free
    /\ producers.threads[p].call # None
    /\ producers.threads[p].guard = None
    /\ lock(producers.mutex)
    /\ producers' = [producers EXCEPT !.mutex = Some(p),
                                       !.threads[p].guard = Some(schema_batch)]
    /\ UNCHANGED <<db, snapshots, to_parent, live_iter, yielded, ret, schema_batch>>

\* entry(..).or_insert_with(Vec::new).push(..) through the guard; the guard is
\* dropped at the end of the statement and the call returns Ok.
ProducerPush(p) ==
    /\ Alive /\ Free
    /\ producers.threads[p].guard # None
    /\ LET call == producers.threads[p].call[1]
           rows == Pushed(producers.threads[p].guard[1], call)
       IN  /\ schema_batch' = rows
           /\ producers' =
                  [producers EXCEPT
                      !.mutex = None,
                      !.threads[p] =
                          [call |-> None, guard |-> None,
                           pushed |-> Append(@.pushed, <<call, Len(rows[call[2]])>>)]]
           /\ ret' = <<call[1], Tail(call), Ok(Unit), FALSE>>
    /\ UNCHANGED <<db, snapshots, to_parent, live_iter, yielded>>

\* Several threads call put and delete on one SchemaBatch.
NextProducers ==
    \/ \E p \in Producers, call \in ProducerCalls :
           ProducerCall(p, call) /\ UNCHANGED <<terminated, committed, reader>>
    \/ \E p \in Producers : ProducerLock(p) /\ UNCHANGED <<terminated, committed, reader>>
    \/ \E p \in Producers : ProducerPush(p) /\ UNCHANGED <<terminated, committed, reader>>

SpecProducers == Init /\ [][NextProducers]_vars

(* ----------------------------- scenarios ------------------------------ *)
\* The column family contents that a batch of puts of the typed pairs writes.
EncodedCf(pairs) ==
    [k \in {encode_key(key) : key \in DOMAIN pairs} |->
        encode_value(pairs[decode_key(k)[2]])]

\* The frozen snapshot that puts and deletes of typed keys and values build.
EncodedFrozen(operations) ==
    [k \in {encode_key(key) : key \in DOMAIN operations} |->
        LET operation == operations[decode_key(k)[2]] IN
        IF operation[1] = "Put" THEN Put(encode_value(operation[2])) ELSE Delete]

\* The manager over a DB that holds the given contents.
ScenarioInit(store) ==
    /\ db = store
    /\ snapshots = <<>>
    /\ to_parent = <<>>
    /\ live_iter = None
    /\ yielded = <<>>
    /\ ret = <<"new", <<>>, Ok(Unit), FALSE>>
    /\ terminated = {}
    /\ committed = {}
    /\ schema_batch = <<>>
    /\ producers = NoProducers
    /\ reader = None

\* The snapshots of a scenario are registered and its graph edges written in
\* any order, and the ids of the scenario are queried in between.
ScenarioNext(frozen, graph, keys) ==
    \/ \E snapshot_id \in DOMAIN frozen :
           RegisterSnapshot(snapshot_id, frozen[snapshot_id])
               /\ UNCHANGED <<terminated, committed, schema_batch, producers, reader>>
    \/ \E child \in DOMAIN graph :
           GraphInsert(child, graph[child]) /\ UNCHANGED <<terminated, committed, schema_batch, producers, reader>>
    \/ \E snapshot_id \in DOMAIN frozen \cup DOMAIN graph, key \in keys :
           Get(snapshot_id, key) /\ UNCHANGED <<terminated, committed, schema_batch, producers, reader>>
    \/ \E snapshot_id \in DOMAIN frozen \cup DOMAIN graph :
           Iter(snapshot_id) /\ UNCHANGED <<terminated, committed, schema_batch, producers, reader>>
    \/ IterNext /\ UNCHANGED <<terminated, committed, schema_batch, producers, reader>>
    \/ IterDrop /\ UNCHANGED <<terminated, committed, schema_batch, producers, reader>>

\* Point lookup: keys A, B, C are 1, 2, 3. The DB holds A=1; snapshot 1 puts
\* B=2 and deletes A; snapshot 2 (parent 1) puts A=5; id 3 is a child of 2.
PointStore == [cf_name \in {DUMMY_STATE_CF} |-> EncodedCf(1 :> 1)]
PointSnapshots ==
    (1 :> EncodedFrozen(1 :> Delete @@ 2 :> Put(2))) @@ (2 :> EncodedFrozen(1 :> Put(5)))
PointGraph == (2 :> 1) @@ (3 :> 2)
PointKeys == {1, 2, 3}

InitPointLookup == ScenarioInit(PointStore)
NextPointLookup == ScenarioNext(PointSnapshots, PointGraph, PointKeys)
SpecPointLookup == InitPointLookup /\ [][NextPointLookup]_vars

\* Merge iterator: the DB holds {2:1, 3:9, 4:1}; snapshot 1 holds
\* {1:8, 4:2, 5:7, 8:3}; snapshot 2 (parent 1) holds {2:6, 9:4, 10:2, delete 4};
\* snapshot 3 (parent 2) holds {1:2, 12:1, delete 9}; id 4 is a child of 3.
MergeStore == [cf_name \in {DUMMY_STATE_CF} |-> EncodedCf(2 :> 1 @@ 3 :> 9 @@ 4 :> 1)]
MergeSnapshots ==
    (1 :> EncodedFrozen(1 :> Put(8) @@ 4 :> Put(2) @@ 5 :> Put(7) @@ 8 :> Put(3)))
    @@ (2 :> EncodedFrozen(2 :> Put(6) @@ 9 :> Put(4) @@ 10 :> Put(2) @@ 4 :> Delete))
    @@ (3 :> EncodedFrozen(1 :> Put(2) @@ 12 :> Put(1) @@ 9 :> Delete))
MergeGraph == (2 :> 1) @@ (3 :> 2) @@ (4 :> 3)
MergeKeys == {1, 4, 9, 12}

InitMergeIterator == ScenarioInit(MergeStore)
NextMergeIterator == ScenarioNext(MergeSnapshots, MergeGraph, MergeKeys)
SpecMergeIterator == InitMergeIterator /\ [][NextMergeIterator]_vars

(* ------------------------- concurrent readers ------------------------- *)
\* Faulty variant of get_pass: the walk does not move to the parent.
get_pass_stays(graph, snaps, snapshot_id, key) ==
    IF snapshot_id \notin DOMAIN graph THEN <<"exit">>
    ELSE LET parent_snapshot_id == graph[snapshot_id] IN
         IF parent_snapshot_id \notin DOMAIN snaps
         THEN <<"return", Panic(MSG_INCONSISTENCY)>>
         ELSE LET operation == Frozen_get(snaps[parent_snapshot_id], key) IN
              IF operation # None
              THEN <<"return", IF operation[1][1] = "Put"
                               THEN decode_some(operation[1][2])
                               ELSE Ok(None)>>
              ELSE <<"continue", snapshot_id>>

\* One pass of the loop of get: the read guard of to_parent is taken for the
\* pass. Returns <<"exit">> when snapshot_id has no parent, <<"return", result>>
\* or <<"continue", parent>>.
get_pass(graph, snaps, snapshot_id, key) ==
    IF snapshot_id \notin DOMAIN graph THEN <<"exit">>
    ELSE LET parent_snapshot_id == graph[snapshot_id] IN
         IF parent_snapshot_id \notin DOMAIN snaps
         THEN <<"return", Panic(MSG_INCONSISTENCY)>>
         ELSE LET operation == Frozen_get(snaps[parent_snapshot_id], key) IN
              IF operation # None
              THEN <<"return", IF operation[1][1] = "Put"
                               THEN decode_some(operation[1][2])
                               ELSE Ok(None)>>
              ELSE <<"continue", parent_snapshot_id>>

\* One pass of the loop of iter. Returns <<"exit">>, <<"return", panic>> or
\* <<"continue", parent, snapshot_iterators afterwards>>.
iter_pass(graph, snaps, snapshot_id, snapshot_iterators) ==
    IF snapshot_id \notin DOMAIN graph THEN <<"exit">>
    ELSE LET parent_snapshot_id == graph[snapshot_id] IN
         IF parent_snapshot_id \notin DOMAIN snaps
         THEN <<"return", Panic(MSG_INCONSISTENCY)>>
         ELSE <<"continue", parent_snapshot_id,
                Append(snapshot_iterators, Frozen_iter(snaps[parent_snapshot_id]))>>

\* What iter does after its loop: the iterators reversed, the DB iterator opened.
iter_finish(store, snapshot_iterators) ==
    IF get_cf_handle(store, DUMMY_STATE_CF)[1] = "err"
    THEN get_cf_handle(store, DUMMY_STATE_CF)
    ELSE Ok([db_iter |-> raw_iter(store, DUMMY_STATE_CF),
             snapshot_iterators |-> Reverse(snapshot_iterators)])

\* Faulty variant of holds_guard: iter takes a read guard for each pass, like get.
holds_guard_per_pass(op) == FALSE

\* Whether the call keeps a read guard of to_parent from one pass of its loop
\* to the next: iter takes one guard before the loop, get takes one in every pass.
holds_guard(op) == op = "iter"

\* A call of get or iter is between two passes of its loop.
Reading == reader # None /\ reader.pc = "loop"

\* What the call in progress returns when it runs against the graph alone.
Answer(graph) ==
    IF reader.op = "get"
    THEN get(graph, snapshots, db, reader.origin, reader.key[1])
    ELSE iter(graph, snapshots, db, reader.origin)

\* A thread enters get: nothing is read yet. The record of the call holds the
\* parents it visited, the graph it was entered with, whether the graph was
\* written during the call, and what the call returns against each version the
\* graph had during the call.
GetCall(snapshot_id, key) ==
    /\ Alive /\ Free /\ ~Reading
    /\ reader' = [op |-> "get", pc |-> "loop", origin |-> snapshot_id,
                   snapshot_id |-> snapshot_id, key |-> Some(key),
                   snapshot_iterators |-> <<>>, visited |-> <<>>, raced |-> FALSE,
                   graph |-> to_parent,
                   answers |-> {get(to_parent, snapshots, db, snapshot_id, key)}]
    /\ UNCHANGED <<db, snapshots, to_parent, live_iter, yielded, ret>>

\* One pass of the loop of get, or the read of the DB after the loop.
GetPass ==
    /\ Alive /\ Reading /\ reader.op = "get"
    /\ LET pass == get_pass(to_parent, snapshots, reader.snapshot_id, reader.key[1])
           seen == IF pass[1] = "exit" THEN reader.visited
                   ELSE Append(reader.visited, to_parent[reader.snapshot_id])
       IN  IF pass[1] = "continue"
           THEN /\ reader' = [reader EXCEPT !.snapshot_id = pass[2], !.visited = seen]
                /\ UNCHANGED ret
           ELSE /\ reader' = [reader EXCEPT !.pc = "done", !.visited = seen]
                /\ ret' = <<"get", <<reader.origin, reader.key[1]>>,
                            IF pass[1] = "exit"
                            THEN DB_get(db, DUMMY_STATE_CF, reader.key[1])
                            ELSE pass[2],
                            FALSE>>
    /\ UNCHANGED <<db, snapshots, to_parent, live_iter, yielded>>

\* A thread enters iter and takes the read guard of to_parent.
IterCall(snapshot_id) ==
    /\ Alive /\ Free /\ ~Reading
    /\ reader' = [op |-> "iter", pc |-> "loop", origin |-> snapshot_id,
                   snapshot_id |-> snapshot_id, key |-> None,
                   snapshot_iterators |-> <<>>, visited |-> <<>>, raced |-> FALSE,
                   graph |-> to_parent,
                   answers |-> {iter(to_parent, snapshots, db, snapshot_id)}]
    /\ UNCHANGED <<db, snapshots, to_parent, live_iter, yielded, ret>>

\* One pass of the loop of iter, or the return of the iterator after the loop,
\* which drops the guard.
IterPass ==
    /\ Alive /\ Reading /\ reader.op = "iter"
    /\ LET pass == iter_pass(to_parent, snapshots, reader.snapshot_id,
                             reader.snapshot_iterators)
       IN  IF pass[1] = "continue"
           THEN /\ reader' = [reader EXCEPT
                                 !.snapshot_id = pass[2],
                                 !.snapshot_iterators = pass[3],
                                 !.visited = Append(@, pass[2])]
                /\ UNCHANGED <<live_iter, yielded, ret>>
           ELSE IF pass[1] = "return"
           THEN /\ reader' = [reader EXCEPT
                                 !.pc = "done",
                                 !.visited = Append(@, to_parent[reader.snapshot_id])]
                /\ ret' = <<"iter", <<reader.origin>>, pass[2], FALSE>>
                /\ UNCHANGED <<live_iter, yielded>>
           ELSE LET r == iter_finish(db, reader.snapshot_iterators) IN
                /\ reader' = [reader EXCEPT !.pc = "done", !.snapshot_iterators = <<>>]
                /\ live_iter' = IF r[1] = "ok" THEN Some(r[2]) ELSE None
                /\ yielded' = <<>>
                /\ ret' = <<"iter", <<reader.origin>>,
                            IF r[1] = "ok" THEN Ok(Unit) ELSE r, FALSE>>
    /\ UNCHANGED <<db, snapshots, to_parent>>

\* RwLock::write of to_parent by the orchestrator: waits while a reader holds a
\* guard. A call in progress records the new version of the graph.
WriteGraph(graph) ==
    /\ Alive
    /\ ~(Reading /\ holds_guard(reader.op))
    /\ to_parent' = graph
    /\ reader' = IF Reading
                  THEN [reader EXCEPT !.raced = TRUE, !.answers = @ \cup {Answer(graph)}]
                  ELSE reader
    /\ UNCHANGED <<db, snapshots, live_iter, yielded, ret>>

\* The orchestrator records the parent of a snapshot it creates.
WriteGraphInsert(child, parent) ==
    /\ parent < child
    /\ WriteGraph(Insert(to_parent, child, parent))

\* The orchestrator forgets the parent of a snapshot.
WriteGraphRemove(child) ==
    /\ child \in DOMAIN to_parent
    /\ WriteGraph(Remove(to_parent, child))

\* The snapshots of a scenario are registered while no call reads; get and iter
\* run pass by pass while the orchestrator writes the graph; the iterator is
\* read and dropped.
NextReaders(frozen, ids, keys) ==
    \/ \E snapshot_id \in DOMAIN frozen :
           /\ ~Reading
           /\ RegisterSnapshot(snapshot_id, frozen[snapshot_id])
           /\ UNCHANGED <<terminated, committed, schema_batch, producers, reader>>
    \/ \E snapshot_id \in ids, key \in keys :
           GetCall(snapshot_id, key) /\ UNCHANGED <<terminated, committed, schema_batch, producers>>
    \/ GetPass /\ UNCHANGED <<terminated, committed, schema_batch, producers>>
    \/ \E snapshot_id \in ids :
           IterCall(snapshot_id) /\ UNCHANGED <<terminated, committed, schema_batch, producers>>
    \/ IterPass /\ UNCHANGED <<terminated, committed, schema_batch, producers>>
    \/ \E child \in ids, parent \in ids :
           WriteGraphInsert(child, parent)
               /\ UNCHANGED <<terminated, committed, schema_batch, producers>>
    \/ \E child \in ids :
           WriteGraphRemove(child) /\ UNCHANGED <<terminated, committed, schema_batch, producers>>
    \/ IterNext /\ UNCHANGED <<terminated, committed, schema_batch, producers, reader>>
    \/ IterDrop /\ UNCHANGED <<terminated, committed, schema_batch, producers, reader>>

\* Readers and the orchestrator over the DB, the snapshots and the ids of the
\* point lookup scenario.
ReaderIds == DOMAIN PointSnapshots \cup DOMAIN PointGraph
NextPointReaders == NextReaders(PointSnapshots, ReaderIds, PointKeys)
SpecReaders == InitPointLookup /\ [][NextPointReaders]_vars

\* A thread inside get or iter is scheduled again: the next pass of its loop
\* runs, as no writer keeps the lock of the graph for ever.
ReaderPass ==
    (GetPass \/ IterPass) /\ UNCHANGED <<terminated, committed, schema_batch, producers>>

SpecReadersFair == SpecReaders /\ WF_vars(ReaderPass)

(* ------------------------- resolved view of an id --------------------- *)
\* The encoded key of the contents that decodes to key.
RawKey(contents, key) == CHOOSE k \in DOMAIN contents : decode_key(k) = Ok(key)

\* A column family as its readers see it: decoded key -> decoded value.
DecodedCf(cf) ==
    [key \in {decode_key(k)[2] : k \in DOMAIN cf} |->
        decode_value(cf[RawKey(cf, key)])[2]]

\* A frozen snapshot as its readers see it: decoded key -> operation with a decoded value.
DecodedFrozen(frozen) ==
    [key \in {decode_key(k)[2] : k \in DOMAIN frozen} |->
        LET operation == frozen[RawKey(frozen, key)] IN
        IF operation[1] = "Put" THEN Put(decode_value(operation[2])[2]) ELSE Delete]

\* The items of an iterator decoded, as the caller of next decodes them.
DecodedItems(items) ==
    [i \in 1..Len(items) |->
        <<decode_key(items[i][1])[2], decode_value(items[i][2])[2]>>]

\* The state as its readers see it.
typed_db == [cf_name \in DOMAIN db |-> DecodedCf(db[cf_name])]
typed_snapshots == [id \in DOMAIN snapshots |-> DecodedFrozen(snapshots[id])]
typed_yielded == DecodedItems(yielded)

\* The ancestors of id in the graph: its parent, grandparent, ..., nearest first.
RECURSIVE AncestorChain(_, _)
AncestorChain(graph, id) ==
    IF id \notin DOMAIN graph THEN <<>>
    ELSE <<graph[id]>> \o AncestorChain(graph, graph[id])

\* Every ancestor of id is registered.
AllRegistered(graph, snaps, id) ==
    \A i \in 1..Len(AncestorChain(graph, id)) : AncestorChain(graph, id)[i] \in DOMAIN snaps

\* What is visible under key from id: the outcome of the nearest ancestor that
\* holds an operation for key, the DB's value when no ancestor holds one.
Resolve(graph, snaps, store, id, key) ==
    LET chain == AncestorChain(graph, id)
        holders == {i \in 1..Len(chain) : key \in DOMAIN snaps[chain[i]]}
    IN  IF holders = {}
        THEN IF key \in DOMAIN store[DUMMY_STATE_CF]
             THEN Some(store[DUMMY_STATE_CF][key])
             ELSE None
        ELSE LET nearest == CHOOSE i \in holders : \A j \in holders : i <= j
                 operation == snaps[chain[nearest]][key]
             IN  IF operation[1] = "Put" THEN Some(operation[2]) ELSE None

\* The (key, value) pairs visible from id.
View(graph, snaps, store, id) ==
    {<<key, Resolve(graph, snaps, store, id, key)[1]>> :
        key \in {k \in Fields : Resolve(graph, snaps, store, id, k) # None}}

Range(s) == {s[i] : i \in 1..Len(s)}

\* The outcome of an operation as a lookup reports it.
Outcome(operation) == IF operation[1] = "Put" THEN Some(operation[2]) ELSE None

\* The last call was op on the snapshot id.
Called(r, op, id) == r[1] = op /\ r[2] = <<id>>

(* ------------------------------- claims ------------------------------- *)
\* C1: get(id, key) returns the outcome of the nearest ancestor of id whose
\* snapshot holds an operation for key (Some(value) for Put, None for Delete),
\* and the DB's answer only when no ancestor on the chain holds one; snapshots
\* off the chain do not enter the result.
C1_GetNearestAncestor ==
    (ret[1] = "get" /\ AllRegistered(to_parent, snapshots, ret[2][1]))
        => ret[3] = Ok(Resolve(to_parent, typed_snapshots, typed_db, ret[2][1], ret[2][2]))

\* C1 happens: a get through two ancestors that both hold the key and disagree,
\* answered from the nearer one.
C1_Witness ==
    /\ ret[1] = "get"
    /\ LET chain == AncestorChain(to_parent, ret[2][1]) IN
       /\ Len(chain) = 2
       /\ chain[1] \in DOMAIN snapshots /\ chain[2] \in DOMAIN snapshots
       /\ ret[2][2] \in DOMAIN typed_snapshots[chain[1]]
       /\ ret[2][2] \in DOMAIN typed_snapshots[chain[2]]
       /\ Outcome(typed_snapshots[chain[1]][ret[2][2]])
              # Outcome(typed_snapshots[chain[2]][ret[2][2]])
       /\ ret[3] = Ok(Outcome(typed_snapshots[chain[1]][ret[2][2]]))

\* C2: the iterator of id emits (k, v) exactly when k resolves to v from id:
\* every item emitted so far is in the view, and once next returns None the
\* items emitted are the whole view; a key whose nearest operation is Delete
\* is not emitted.
C2_IterEmitsView ==
    (live_iter # None) =>
        /\ Range(typed_yielded) \subseteq View(to_parent, typed_snapshots, typed_db, ret[2][1])
        /\ (ret[1] = "next" /\ ret[3] = Ok(None))
               => Range(typed_yielded) = View(to_parent, typed_snapshots, typed_db, ret[2][1])

\* C2 happens: an exhausted iterator that emitted a snapshot's Put and hid a
\* key of the DB behind a Delete, or emitted a Put that overrides an older value.
C2_Witness ==
    /\ live_iter # None /\ ret[1] = "next" /\ ret[3] = Ok(None)
    /\ LET chain == AncestorChain(to_parent, ret[2][1]) IN
       /\ chain # <<>>
       /\ \E k \in DOMAIN typed_snapshots[chain[1]] :
            /\ k \in DOMAIN typed_db[DUMMY_STATE_CF]
            /\ \/ /\ typed_snapshots[chain[1]][k] = Delete
                  /\ \A i \in 1..Len(yielded) : typed_yielded[i][1] # k
               \/ /\ typed_snapshots[chain[1]][k][1] = "Put"
                  /\ typed_snapshots[chain[1]][k][2] # typed_db[DUMMY_STATE_CF][k]
                  /\ <<k, typed_snapshots[chain[1]][k][2]>> \in Range(typed_yielded)

\* C3: the items an iterator emits are strictly descending in key order, so no
\* key is emitted twice.
C3_IterStrictlyDescending ==
    \A i \in 1..Len(yielded) : \A j \in 1..Len(yielded) :
        i < j => cmp(yielded[i][1], yielded[j][1]) = "Greater"

\* C3 happens: two items were emitted, merged from a snapshot and the DB.
C3_Witness ==
    /\ live_iter # None
    /\ Len(yielded) = 2
    /\ AncestorChain(to_parent, ret[2][1]) # <<>>
    /\ \E i \in 1..2 : yielded[i][1] \notin DOMAIN db[DUMMY_STATE_CF]
    /\ \E i \in 1..2 : yielded[i][1] \in DOMAIN db[DUMMY_STATE_CF]

\* C4: after a successful commit_snapshot(X) the DB answers every key X puts
\* with the value put, every key X deletes with None, every other key as
\* before the commit, and X is no longer registered.
C4_CommitWritesStore ==
    [][(ret'[1] = "commit_snapshot" /\ ret'[3] = Ok(Unit)) =>
         LET X == ret'[2][1] IN
         /\ X \in DOMAIN snapshots
         /\ \A k \in Fields :
              DB_get(db', DUMMY_STATE_CF, k) =
                  IF k \in DOMAIN typed_snapshots[X]
                  THEN Ok(Outcome(typed_snapshots[X][k]))
                  ELSE DB_get(db, DUMMY_STATE_CF, k)
         /\ ~contains_snapshot(snapshots', X)]_vars

\* C4 happens: a commit succeeded and left a value in the DB.
C4_Witness ==
    /\ ret[1] = "commit_snapshot" /\ ret[3] = Ok(Unit) /\ ret[4]
    /\ db[DUMMY_STATE_CF] # <<>>

\* C5: whenever commit_snapshot takes a registered id out of the registry, the
\* snapshot's operations are in the DB, also when the write of the DB fails.
C5_WrittenBeforeRemoved ==
    [][\A X \in SnapshotIds :
         (Called(ret', "commit_snapshot", X)
              /\ contains_snapshot(snapshots, X) /\ ~contains_snapshot(snapshots', X))
         => \A k \in DOMAIN typed_snapshots[X] :
              DB_get(db', DUMMY_STATE_CF, k) = Ok(Outcome(typed_snapshots[X][k]))]_vars

\* C6: a new manager contains no snapshot; X is contained right after
\* add_snapshot(X) and stays contained until a discard_snapshot(X) or
\* commit_snapshot(X); X is not contained right after discard_snapshot(X) and
\* right after a successful commit_snapshot(X).
C6_RegistrationLifecycle ==
    /\ \A X \in SnapshotIds : ~contains_snapshot(snapshots, X)
    /\ [][\A X \in SnapshotIds :
            /\ Called(ret', "add_snapshot", X) => contains_snapshot(snapshots', X)
            /\ (contains_snapshot(snapshots, X)
                   /\ ~Called(ret', "discard_snapshot", X)
                   /\ ~Called(ret', "commit_snapshot", X))
               => contains_snapshot(snapshots', X)
            /\ Called(ret', "discard_snapshot", X) => ~contains_snapshot(snapshots', X)
            /\ (Called(ret', "commit_snapshot", X) /\ ret'[3] = Ok(Unit))
               => ~contains_snapshot(snapshots', X)]_vars

\* C6 happens: a registered snapshot was discarded.
C6_Witness ==
    /\ ret[1] = "discard_snapshot" /\ ret[4]
    /\ ~contains_snapshot(snapshots, ret[2][1])

\* C7 as claimed: an id that was discarded or committed is never contained again.
C7_TerminalIsFinal ==
    \A X \in terminated : ~contains_snapshot(snapshots, X)

\* C7 as amended: an id that was discarded or committed stays out of the
\* registry under every call but add_snapshot with that id, which succeeds and
\* registers it again.
C7_OnlyAddLeavesTerminal ==
    [][\A X \in terminated :
         ~contains_snapshot(snapshots, X) =>
             IF Called(ret', "add_snapshot", X)
             THEN ret'[3] = Ok(Unit) /\ contains_snapshot(snapshots', X)
             ELSE ~contains_snapshot(snapshots', X)]_vars

\* C7 happens: a terminated id was added again.
C7_Witness ==
    \E X \in terminated :
        Called(ret, "add_snapshot", X) /\ ret[3] = Ok(Unit) /\ contains_snapshot(snapshots, X)

\* C8: add_snapshot with an id that is registered panics with the message
\* "Attempt to double save same snapshot".
C8_DoubleAddPanics ==
    (ret[1] = "add_snapshot" /\ ret[4]) => ret[3] = Panic(MSG_DOUBLE_SAVE)

\* C8 happens: a registered id was added again.
C8_Witness ==
    ret[1] = "add_snapshot" /\ ret[4] /\ ret[3][1] = "panic"

\* C9: commit_snapshot of an id that is not registered returns an error, not a
\* panic, and changes neither the registry nor the DB.
C9_CommitUnknownIsError ==
    [][\A X \in SnapshotIds :
         (Called(ret', "commit_snapshot", X) /\ ~contains_snapshot(snapshots, X))
         => /\ ret'[3] = Err(MSG_COMMIT_UNKNOWN)
            /\ snapshots' = snapshots
            /\ db' = db]_vars

\* C9 happens: an unknown id was committed.
C9_Witness ==
    ret[1] = "commit_snapshot" /\ ~ret[4] /\ ret[3][1] = "err"

\* C10: discard_snapshot returns normally and leaves the DB alone; on an id
\* that is not registered it leaves the registry alone too, so a second
\* discard_snapshot(X) changes nothing after the first.
C10_DiscardIdempotent ==
    [][\A X \in SnapshotIds :
         Called(ret', "discard_snapshot", X)
         => /\ ret'[3] = Ok(Unit)
            /\ db' = db
            /\ ~contains_snapshot(snapshots, X) => snapshots' = snapshots
            /\ discard_snapshot(snapshots', X) = <<Ok(Unit), snapshots'>>]_vars

\* C10 happens: an id that was not registered was discarded.
C10_Witness ==
    ret[1] = "discard_snapshot" /\ ~ret[4] /\ ret[3] = Ok(Unit)

\* C11: a snapshot is flushed at most once per registration. A commit_snapshot(X)
\* that follows discard_snapshot(X) or a successful commit_snapshot(X), or that
\* finds X terminated and not registered again, returns an error and changes
\* neither the DB nor the registry; discard_snapshot never changes the DB.
C11_FlushedAtMostOnce ==
    [][\A X \in SnapshotIds :
         /\ (/\ Called(ret', "commit_snapshot", X)
             /\ \/ X \in terminated \ DOMAIN snapshots
                \/ Called(ret, "discard_snapshot", X)
                \/ Called(ret, "commit_snapshot", X) /\ ret[3] = Ok(Unit))
            => /\ ret'[3] = Err(MSG_COMMIT_UNKNOWN)
               /\ db' = db
               /\ snapshots' = snapshots
         /\ Called(ret', "discard_snapshot", X) => db' = db]_vars

\* C11 happens: a commit of a snapshot that was committed before is refused.
C11_Witness ==
    \E X \in terminated :
        /\ Called(ret, "commit_snapshot", X) /\ ret[3] = Err(MSG_COMMIT_UNKNOWN)
        /\ db[DUMMY_STATE_CF] # <<>>

\* C12: for an id without an entry in the graph, get(id, key) is the DB's answer
\* for key and iter(id) returns the DB's entries, greatest key first, whether or
\* not id is registered and whatever its own snapshot holds.
C12_NoGraphEntryReadsStore ==
    /\ (ret[1] = "get" /\ ret[2][1] \notin DOMAIN to_parent)
           => ret[3] = DB_get(db, DUMMY_STATE_CF, ret[2][2])
    /\ (ret[1] = "iter" /\ ret[2][1] \notin DOMAIN to_parent)
           => ret[3] = Ok(Unit) /\ live_iter # None
    /\ (live_iter # None /\ ret[2][1] \notin DOMAIN to_parent)
           => LET entries == raw_iter(db, DUMMY_STATE_CF) IN
              /\ Len(yielded) <= Len(entries)
              /\ yielded = SubSeq(entries, 1, Len(yielded))
              /\ (ret[1] = "next" /\ ret[3] = Ok(None)) => yielded = entries

\* C12 happens: a get on a registered id without a graph entry, whose own
\* snapshot holds another outcome for the key than the DB.
C12_Witness ==
    /\ ret[1] = "get"
    /\ ret[2][1] \notin DOMAIN to_parent
    /\ ret[2][1] \in DOMAIN snapshots
    /\ ret[2][2] \in DOMAIN typed_snapshots[ret[2][1]]
    /\ ret[2][2] \in DOMAIN typed_db[DUMMY_STATE_CF]
    /\ ret[3] = Ok(Some(typed_db[DUMMY_STATE_CF][ret[2][2]]))
    /\ Outcome(typed_snapshots[ret[2][1]][ret[2][2]])
           # Some(typed_db[DUMMY_STATE_CF][ret[2][2]])

\* C13 as claimed: with snapshot 1 registered on the DB, get(1, A) is None and
\* get(1, B) is Some(2); with snapshot 2 registered on 1 as well, get(2, A) is
\* Some(5), get(2, B) is Some(2) and get(2, C) is None.
C13_PointLookupOwnWrites ==
    ret[1] = "get" =>
        LET id == ret[2][1]
            key == ret[2][2]
        IN
        /\ (id = 1 /\ 1 \in DOMAIN snapshots /\ 1 \notin DOMAIN to_parent)
               => /\ key = 1 => ret[3] = Ok(None)
                  /\ key = 2 => ret[3] = Ok(Some(2))
        /\ (id = 2 /\ {1, 2} \subseteq DOMAIN snapshots
                   /\ 2 \in DOMAIN to_parent /\ 1 \notin DOMAIN to_parent)
               => /\ key = 1 => ret[3] = Ok(Some(5))
                  /\ key = 2 => ret[3] = Ok(Some(2))
                  /\ key = 3 => ret[3] = Ok(None)

\* C13 as amended: get answers from the parents of the id, never from the id's
\* own snapshot. get(1, .) is the DB's answer; get(2, .) is the view of
\* snapshot 1 over the DB; get(3, .) of a child 3 of snapshot 2 is the view the
\* claim states for snapshot 2.
C13_PointLookup ==
    ret[1] = "get" =>
        LET id == ret[2][1]
            key == ret[2][2]
        IN
        /\ (id = 1 /\ 1 \in DOMAIN snapshots)
               => /\ key = 1 => ret[3] = Ok(Some(1))
                  /\ key = 2 => ret[3] = Ok(None)
                  /\ key = 3 => ret[3] = Ok(None)
        /\ (id = 2 /\ 1 \in DOMAIN snapshots /\ 2 \in DOMAIN to_parent)
               => /\ key = 1 => ret[3] = Ok(None)
                  /\ key = 2 => ret[3] = Ok(Some(2))
                  /\ key = 3 => ret[3] = Ok(None)
        /\ (id = 3 /\ {1, 2} \subseteq DOMAIN snapshots /\ {2, 3} \subseteq DOMAIN to_parent)
               => /\ key = 1 => ret[3] = Ok(Some(5))
                  /\ key = 2 => ret[3] = Ok(Some(2))
                  /\ key = 3 => ret[3] = Ok(None)

\* C13 happens: with both snapshots registered, A is read from the child of
\* snapshot 2 and from snapshot 2 itself.
C13_Witness ==
    /\ {1, 2} \subseteq DOMAIN snapshots /\ {2, 3} \subseteq DOMAIN to_parent
    /\ ret[1] = "get" /\ ret[2][2] = 1
    /\ \/ ret[2][1] = 3 /\ ret[3] = Ok(Some(5))
       \/ ret[2][1] = 2 /\ ret[3] = Ok(None)

\* C14 as claimed: with the three snapshots registered and chained, the
\* iterator of snapshot 3 returns (12,1), (10,2), (8,3), (5,7), (3,9), (2,6), (1,2).
C14_MergeIteratorOwnWrites ==
    (/\ live_iter # None /\ ret[1] = "next" /\ ret[3] = Ok(None)
     /\ ret[2][1] = 3 /\ {1, 2, 3} \subseteq DOMAIN snapshots
     /\ {2, 3} \subseteq DOMAIN to_parent)
        => typed_yielded = << <<12, 1>>, <<10, 2>>, <<8, 3>>, <<5, 7>>, <<3, 9>>, <<2, 6>>, <<1, 2>> >>

\* C14 as amended: the iterator of an id merges the id's ancestors and the DB,
\* not the id's own snapshot. The iterator of snapshot 3 returns the view of
\* snapshot 2, and the claimed sequence is returned by the iterator of a child
\* 4 of snapshot 3.
C14_MergeIterator ==
    (live_iter # None /\ ret[1] = "next" /\ ret[3] = Ok(None))
        => /\ (ret[2][1] = 3 /\ {2, 3} \subseteq DOMAIN to_parent) =>
                typed_yielded = << <<10, 2>>, <<9, 4>>, <<8, 3>>, <<5, 7>>, <<3, 9>>, <<2, 6>>, <<1, 8>> >>
           /\ (ret[2][1] = 4 /\ {2, 3, 4} \subseteq DOMAIN to_parent) =>
                typed_yielded = << <<12, 1>>, <<10, 2>>, <<8, 3>>, <<5, 7>>, <<3, 9>>, <<2, 6>>, <<1, 2>> >>

\* C14 happens: the iterator of the child of snapshot 3 is exhausted after
\* seven items.
C14_Witness ==
    /\ live_iter # None /\ ret[1] = "next" /\ ret[3] = Ok(None)
    /\ ret[2][1] = 4 /\ Len(yielded) = 7
    /\ {1, 2, 3} \subseteq DOMAIN snapshots

\* Positions on the ancestor chain of id whose snapshot is not registered.
Gaps(graph, snaps, id) ==
    {i \in 1..Len(AncestorChain(graph, id)) : AncestorChain(graph, id)[i] \notin DOMAIN snaps}

\* Positions on the ancestor chain of id whose snapshot holds an operation for key.
Holders(graph, snaps, id, key) ==
    {i \in 1..Len(AncestorChain(graph, id)) :
        /\ AncestorChain(graph, id)[i] \in DOMAIN snaps
        /\ key \in DOMAIN snaps[AncestorChain(graph, id)[i]]}

\* C15 as claimed: get panics for every key when some ancestor of the id is
\* missing from the registry.
C15_GetPanicsOnAnyGap ==
    (ret[1] = "get" /\ Gaps(to_parent, snapshots, ret[2][1]) # {})
        => ret[3] = Panic(MSG_INCONSISTENCY)

\* C15 as amended: get panics exactly when the walk reaches a missing ancestor
\* before it finds a registered ancestor holding the key; a holder nearer than
\* every missing ancestor answers, and the DB is never asked across a gap.
C15_GetPanicsOnReachedGap ==
    (ret[1] = "get" /\ Gaps(to_parent, snapshots, ret[2][1]) # {})
        => LET id == ret[2][1]
               key == ret[2][2]
               chain == AncestorChain(to_parent, id)
               gaps == Gaps(to_parent, snapshots, id)
               nearer == {h \in Holders(to_parent, typed_snapshots, id, key) :
                             \A g \in gaps : h < g}
           IN  IF nearer = {}
               THEN ret[3] = Panic(MSG_INCONSISTENCY)
               ELSE LET h == CHOOSE x \in nearer : \A y \in nearer : x <= y
                    IN  ret[3] = Ok(Outcome(typed_snapshots[chain[h]][key]))

\* C15 happens: a get walks past a registered parent that does not hold the
\* key and panics at the missing grandparent.
C15_Witness ==
    /\ ret[1] = "get" /\ ret[3] = Panic(MSG_INCONSISTENCY)
    /\ Gaps(to_parent, snapshots, ret[2][1]) = {2}
    /\ ret[2][2] \in DOMAIN typed_db[DUMMY_STATE_CF]

\* C16: iter(id) panics when some ancestor of id is missing from the registry,
\* whatever the keys; no iterator is returned, nothing is yielded, and the panic
\* comes before the DB iterator is opened (a DB without the column family
\* gives the same panic and not the error of raw_iter).
C16_IterPanicsOnGap ==
    /\ (ret[1] = "iter" /\ Gaps(to_parent, snapshots, ret[2][1]) # {})
           => /\ ret[3] = Panic(MSG_INCONSISTENCY)
              /\ live_iter = None
              /\ yielded = <<>>
              /\ iter(to_parent, snapshots, <<>>, ret[2][1]) = Panic(MSG_INCONSISTENCY)
    /\ live_iter # None => Gaps(to_parent, snapshots, ret[2][1]) = {}

\* C16 happens: iter panics at a missing grandparent behind a registered parent.
C16_Witness ==
    /\ ret[1] = "iter" /\ ret[3] = Panic(MSG_INCONSISTENCY)
    /\ Gaps(to_parent, snapshots, ret[2][1]) = {2}
    /\ db[DUMMY_STATE_CF] # <<>>

\* C17 as claimed: once commit_snapshot(P) has succeeded while the graph maps a
\* child C to P, every later get(C, key) panics as long as the entry remains.
C17_OrphanAlwaysPanics ==
    (ret[1] = "get" /\ ret[2][1] \in DOMAIN to_parent
                    /\ to_parent[ret[2][1]] \in committed)
        => ret[3] = Panic(MSG_INCONSISTENCY)

\* C17 as amended: commit_snapshot of a registered P is never refused because
\* of the graph, and once it has succeeded, get(C, key) and iter(C) of a child C
\* of P panic as long as the entry remains and P is not registered again.
C17_OrphanPanicsUntilReadded ==
    /\ (ret[1] = "commit_snapshot" /\ ret[4]) => ret[3] \in {Ok(Unit), Err(MSG_IO)}
    /\ \A C \in DOMAIN to_parent :
          (to_parent[C] \in committed \ DOMAIN snapshots)
              => /\ iter(to_parent, snapshots, db, C) = Panic(MSG_INCONSISTENCY)
                 /\ (ret[1] = "get" /\ ret[2][1] = C) => ret[3] = Panic(MSG_INCONSISTENCY)

\* C17 happens: the parent of a registered child was committed and a get of
\* the child panicked.
C17_Witness ==
    /\ ret[1] = "get" /\ ret[3] = Panic(MSG_INCONSISTENCY)
    /\ ret[2][1] \in DOMAIN snapshots
    /\ ret[2][1] \in DOMAIN to_parent
    /\ to_parent[ret[2][1]] \in committed \ DOMAIN snapshots

\* C18: the DB holds committed data only. add_snapshot, discard_snapshot,
\* contains_snapshot, get, iter and the iterator's next leave the DB as it is;
\* the DB changes only in a step where commit_snapshot or write_schemas
\* returns Ok.
C18_StoreChangesOnlyByCommit ==
    [][/\ db' # db => /\ ret'[1] \in {"commit_snapshot", "write_schemas"}
                      /\ ret'[3] = Ok(Unit)
       /\ ret'[1] \in {"add_snapshot", "discard_snapshot", "contains_snapshot",
                       "get", "iter", "next", "drop"} => db' = db]_vars

\* C18 happens: a snapshot that puts a key the DB does not hold is registered,
\* and the DB still does not hold the key.
C18_Witness ==
    /\ ret[1] = "add_snapshot" /\ ret[3] = Ok(Unit)
    /\ \E key \in DOMAIN snapshots[ret[2][1]] :
          /\ snapshots[ret[2][1]][key][1] = "Put"
          /\ key \notin DOMAIN db[DUMMY_STATE_CF]

\* The positions of the rows of a family that address key.
RowsOn(rows, key) == {i \in 1..Len(rows) : decode_key(rows[i][2]) = Ok(key)}

\* What a read of key returns after rows were written: decided by the last row
\* that addresses key.
LastWritten(rows, key) ==
    LET last == rows[SetMax(RowsOn(rows, key))]
    IN  IF last[1] = "Value" THEN Some(decode_value(last[3])[2]) ELSE None

\* C19: after write_schemas returned Ok, a read of each key the batch addresses
\* returns what the last row on that key wrote: the value of the last put, or
\* nothing if the last row deletes, whatever the earlier rows on the key were.
C19_LastRowWins ==
    (ret[1] = "write_schemas" /\ ret[3] = Ok(Unit))
        => \A cf_name \in DOMAIN ret[2][1] : \A key \in Fields :
              RowsOn(ret[2][1][cf_name], key) # {}
                  => DB_get(db, cf_name, key) = Ok(LastWritten(ret[2][1][cf_name], key))

\* C19 happens: a written batch addressed one key twice with different rows.
C19_Witness ==
    /\ ret[1] = "write_schemas" /\ ret[3] = Ok(Unit)
    /\ \E cf_name \in DOMAIN ret[2][1] : \E key \in Fields :
          LET rows == ret[2][1][cf_name] IN
          \E i \in RowsOn(rows, key) : \E j \in RowsOn(rows, key) :
              i < j /\ rows[i] # rows[j] /\ j = SetMax(RowsOn(rows, key))

\* C20: write_schemas is all or nothing. When it returns an error (a family
\* of the batch is missing from the DB, or the write fails) the DB is as
\* before, also for the rows of the families the DB has; when it returns Ok
\* every family of the batch is in the DB, every addressed key reads as its
\* last row wrote and every other key reads as before.
C20_AllOrNothing ==
    [][ret'[1] = "write_schemas" =>
         /\ ret'[3][1] = "err" => db' = db
         /\ ret'[3] = Err(MSG_CF_NOT_FOUND)
                <=> (\E cf_name \in DOMAIN schema_batch : cf_name \notin DOMAIN db)
         /\ ret'[3] = Ok(Unit) =>
                /\ DOMAIN schema_batch \subseteq DOMAIN db
                /\ \A cf_name \in DOMAIN db : \A key \in Fields :
                      DB_get(db', cf_name, key) =
                          IF cf_name \in DOMAIN schema_batch
                                 /\ RowsOn(schema_batch[cf_name], key) # {}
                          THEN Ok(LastWritten(schema_batch[cf_name], key))
                          ELSE DB_get(db, cf_name, key)]_vars

\* C20 happens: a batch with a row that would change the DB and a row for a
\* family the DB does not have was refused.
C20_Witness ==
    /\ ret[1] = "write_schemas" /\ ret[3] = Err(MSG_CF_NOT_FOUND)
    /\ DUMMY_STATE_CF \in DOMAIN ret[2][1]
    /\ ApplyRows(db[DUMMY_STATE_CF], ret[2][1][DUMMY_STATE_CF]) # db[DUMMY_STATE_CF]

\* The row that put(cf_name, key, value) pushes is the last row of the batch
\* that addresses the key.
LastPut(rows, cf_name, key, value) ==
    /\ cf_name \in DOMAIN rows
    /\ RowsOn(rows[cf_name], key) # {}
    /\ rows[cf_name][SetMax(RowsOn(rows[cf_name], key))]
           = SchemaBatch_put(<<>>, cf_name, key, value)[cf_name][1]

\* C21: round trip. After write_schemas returned Ok for a batch whose last row
\* on a key is put(family, key, value), DB::get(family, key) returns exactly
\* Some(value); and a value that DB::get returns for a key is returned again
\* after every step that is not a successful write_schemas of a batch with a
\* row on that key in that family.
C21_RoundTrip ==
    /\ []((ret[1] = "write_schemas" /\ ret[3] = Ok(Unit))
           => \A cf_name \in BatchFamilies, key \in Fields, value \in Fields :
                 LastPut(ret[2][1], cf_name, key, value)
                     => DB_get(db, cf_name, key) = Ok(Some(value)))
    /\ [][\A cf_name \in DOMAIN db, key \in Fields, value \in Fields :
            (/\ DB_get(db, cf_name, key) = Ok(Some(value))
             /\ ~(/\ ret'[1] = "write_schemas" /\ ret'[3] = Ok(Unit)
                  /\ cf_name \in DOMAIN schema_batch
                  /\ RowsOn(schema_batch[cf_name], key) # {}))
            => DB_get(db', cf_name, key) = Ok(Some(value))]_vars

\* C21 happens: a batch that deletes a key the DB holds and then puts another
\* value under it was written, and the key reads as the value put.
C21_Witness ==
    /\ ret[1] = "write_schemas" /\ ret[3] = Ok(Unit)
    /\ \E key \in Fields, value \in Fields :
          LET rows == ret[2][1][DUMMY_STATE_CF] IN
          /\ LastPut(ret[2][1], DUMMY_STATE_CF, key, value)
          /\ \E i \in RowsOn(rows, key) : rows[i][1] = "Deletion"
          /\ DB_get(db, DUMMY_STATE_CF, key) = Ok(Some(value))

\* The row a call of put or delete builds.
RowOf(call) ==
    IF call[1] = "put"
    THEN WriteOpValue(encode_key(call[3]), encode_value(call[4]))
    ELSE WriteOpDeletion(encode_key(call[3]))

\* The completed calls on a family: <<producer, position among the producer's calls>>.
Completed(cf_name) ==
    {<<p, i>> \in Producers \X (1..MaxBatchLen) :
        /\ i <= Len(producers.threads[p].pushed)
        /\ producers.threads[p].pushed[i][1][2] = cf_name}

\* C22: with several threads calling put and delete on one SchemaBatch, the
\* rows of each family are exactly the rows of the completed calls on that
\* family: as many rows as calls, each call's row at the place it was pushed
\* to, no two calls at one place, and the rows of one thread in the order of
\* its calls.
C22_NoLostAppend ==
    \A cf_name \in BatchFamilies :
        LET rows == IF cf_name \in DOMAIN schema_batch THEN schema_batch[cf_name] ELSE <<>>
            place(c) == producers.threads[c[1]].pushed[c[2]][2]
            call(c) == producers.threads[c[1]].pushed[c[2]][1]
        IN  /\ Len(rows) = Cardinality(Completed(cf_name))
            /\ \A c \in Completed(cf_name) :
                  /\ place(c) \in 1..Len(rows)
                  /\ rows[place(c)] = RowOf(call(c))
            /\ \A c \in Completed(cf_name), d \in Completed(cf_name) :
                  /\ c # d => place(c) # place(d)
                  /\ (c[1] = d[1] /\ c[2] < d[2]) => place(c) < place(d)

\* C22 happens: a thread pushed a row between two rows of another thread while
\* that thread was inside its second call.
C22_Witness ==
    \E cf_name \in BatchFamilies, p \in Producers, q \in Producers :
        /\ p # q
        /\ cf_name \in DOMAIN schema_batch /\ Len(schema_batch[cf_name]) = 3
        /\ Len(producers.threads[p].pushed) = 2
        /\ producers.threads[p].pushed[1][2] = 1
        /\ producers.threads[p].pushed[2][2] = 3
        /\ Len(producers.threads[q].pushed) = 1
        /\ producers.threads[q].pushed[1][2] = 2
        /\ producers.threads[q].pushed[1][1] # producers.threads[p].pushed[1][1]

\* s is the beginning of t.
IsPrefix(s, t) == Len(s) <= Len(t) /\ s = SubSeq(t, 1, Len(s))

\* Number of elements the sources of an iterator still hold.
RECURSIVE SumLen(_)
SumLen(seqs) == IF seqs = <<>> THEN 0 ELSE Len(Head(seqs)) + SumLen(Tail(seqs))
Remaining(it) == Len(it.db_iter) + SumLen(it.snapshot_iterators)

\* Every pass of the loop of next from it on consumes an element of some source,
\* and the loop is left without a pass only when every source is exhausted.
RECURSIVE EveryPassConsumes(_)
EveryPassConsumes(it) ==
    LET step == merge_step(it) IN
    IF step[1] = "break" THEN Remaining(it) = 0 /\ step[2] = it
    ELSE /\ Remaining(step[2]) < Remaining(it)
         /\ step[1] = "continue" => EveryPassConsumes(step[2])

\* C23: get and the construction of iter visit no ancestor twice (against an
\* unchanged graph they visit the ancestor chain in order) and terminate; every
\* pass of the merge loop consumes an element of some source, so the iterator
\* yields finitely many items; once every source is exhausted, next returns
\* None and leaves the iterator as it is, on every later call as well.
C23_Terminates ==
    /\ [](reader # None =>
             /\ \A i \in 1..Len(reader.visited) : \A j \in 1..Len(reader.visited) :
                    i # j => reader.visited[i] # reader.visited[j]
             /\ ~reader.raced
                    => IsPrefix(reader.visited, AncestorChain(reader.graph, reader.origin)))
    /\ [](live_iter # None =>
             /\ EveryPassConsumes(live_iter[1])
             /\ Remaining(live_iter[1]) = 0 => next(live_iter[1]) = <<live_iter[1], None>>
             /\ (ret[1] = "next" /\ ret[3] = Ok(None)) => Remaining(live_iter[1]) = 0)
    /\ (Reading ~> ~Reading)

\* C23 happens: an iterator built over two ancestors was read until next
\* returned None.
C23_Witness ==
    /\ live_iter # None /\ ret[1] = "next" /\ ret[3] = Ok(None)
    /\ reader # None /\ reader.op = "iter" /\ Len(reader.visited) = 2
    /\ Len(yielded) = 2
    /\ Remaining(live_iter[1]) = 0

\* C25: a get that runs while the orchestrator writes the graph returns what
\* get returns against one of the versions the graph had during the call.
C25_GetSingleVersion ==
    (reader # None /\ reader.op = "get" /\ reader.pc = "done" /\ ret[1] = "get")
        => ret[3] \in reader.answers

\* Every item of the iterator, from it until next returns None.
RECURSIVE Drain(_)
Drain(it) ==
    LET r == next(it) IN
    IF r[2] = None THEN <<>> ELSE <<r[2][1]>> \o Drain(r[1])

\* C26: iter keeps the read guard of the graph for its whole walk and has dropped
\* it when it returns. No write of the graph falls into the walk; what iter
\* returns is what it returns against the graph it was entered with; and the
\* items of the returned iterator are the items of that version of the graph,
\* whatever is written to the graph after iter returned.
C26_IterOneVersion ==
    (reader # None /\ reader.op = "iter") =>
        /\ ~reader.raced
        /\ reader.answers = {iter(reader.graph, snapshots, db, reader.origin)}
        /\ (reader.pc = "done" /\ (live_iter # None \/ ret[1] = "iter")) =>
               LET answer == iter(reader.graph, snapshots, db, reader.origin) IN
               IF live_iter = None
               THEN ret[3] = answer
               ELSE /\ answer[1] = "ok"
                    /\ yielded \o Drain(live_iter[1]) = Drain(answer[2])

\* C26 happens: the graph was changed under a returned iterator that went on to
\* yield the items of ancestors the graph no longer leads to.
C26_Witness ==
    /\ reader # None /\ reader.op = "iter" /\ reader.pc = "done"
    /\ live_iter # None /\ ret[1] = "next" /\ ret[3][2] # None
    /\ Len(reader.visited) = 2
    /\ reader.origin \notin DOMAIN to_parent
    /\ Len(yielded) = 2

\* C27: an add_snapshot that is rejected because its id is registered leaves
\* the registry as it was: the id still maps to the snapshot registered first.
C27_RejectedAddKeepsRegistry ==
    [][(ret'[1] = "add_snapshot" /\ ret'[3] = Panic(MSG_DOUBLE_SAVE))
           => snapshots' = snapshots]_vars

\* The sources of an iterator by rising priority: the DB, then the snapshots
\* from the farthest ancestor to the nearest.
Sources(it) == <<it.db_iter>> \o it.snapshot_iterators

\* The pass of the merge loop from it, and every pass that follows it within the
\* same call of next, moves exactly the sources whose head is the greatest head
\* by one element, is decided by the tied source of the highest priority, and
\* leaves every head smaller than the key it handled.
RECURSIVE StepDecides(_)
StepDecides(it) ==
    LET src == Sources(it)
        live == {i \in 1..Len(src) : src[i] # <<>>}
        step == merge_step(it)
    IN  IF live = {} THEN step = <<"break", it, None>>
        ELSE LET max_key == MaxKey({Head(src[i])[1] : i \in live})
                 tied == {i \in live : Head(src[i])[1] = max_key}
                 decider == SetMax(tied)
                 entry == Head(src[decider])
                 after == Sources(step[2])
             IN  /\ Len(after) = Len(src)
                 /\ \A i \in 1..Len(src) :
                       after[i] = IF i \in tied THEN Tail(src[i]) ELSE src[i]
                 /\ IF decider = 1
                    THEN step[1] = "return" /\ step[3] = Some(entry)
                    ELSE IF entry[2][1] = "Put"
                    THEN step[1] = "return" /\ step[3] = Some(<<max_key, entry[2][2]>>)
                    ELSE step[1] = "continue" /\ step[3] = None
                 /\ \A i \in 1..Len(after) :
                       after[i] # <<>> => cmp(Head(after[i])[1], max_key) = "Less"
                 /\ step[1] = "continue" => StepDecides(step[2])

\* C24: the iterator that iter returns holds the DB and then the ancestors of
\* the id from the farthest to the nearest; in every pass of the merge loop
\* every source whose head is the greatest head moves by exactly one element
\* and no other source moves, the tied source nearest to the id decides (the
\* DB last), and afterwards every head is smaller than the key handled.
C24_MergeStep ==
    /\ (ret[1] = "iter" /\ live_iter # None) =>
           LET chain == AncestorChain(to_parent, ret[2][1])
               src == Sources(live_iter[1])
           IN  /\ Len(src) = Len(chain) + 1
               /\ src[1] = raw_iter(db, DUMMY_STATE_CF)
               /\ \A i \in 1..Len(chain) :
                     src[i + 1] = Frozen_iter(snapshots[chain[Len(chain) + 1 - i]])
    /\ live_iter # None => StepDecides(live_iter[1])

\* C24 happens: next returned the value a snapshot puts under a key that the DB
\* holds with another value, and the DB iterator was moved past the key.
C24_Witness ==
    /\ live_iter # None /\ ret[1] = "next" /\ ret[3][2] # None
    /\ LET item == ret[3][2][1] IN
       /\ item[1] \in DOMAIN db[DUMMY_STATE_CF]
       /\ db[DUMMY_STATE_CF][item[1]] # item[2]
       /\ live_iter[1].db_iter = <<>>

\* get(id, key) and the decoded items of iter(id) say the same about key.
Agree(answer, items, key) ==
    /\ answer[1] = "ok"
    /\ \A value \in Fields : answer = Ok(Some(value)) <=> <<key, value>> \in Range(items)
    /\ answer = Ok(None) <=> (\A i \in 1..Len(items) : items[i][1] # key)

\* C28: get and iter agree. For an id whose ancestors are all registered, what
\* get returned for a key is what the iterator of the id yields for that key
\* (Some(v) exactly when (key, v) is yielded, None exactly when the key is not
\* yielded), and the items an iterator yielded until it was exhausted are what
\* get returns for every key.
C28_GetAgreesWithIter ==
    /\ (ret[1] = "get" /\ AllRegistered(to_parent, snapshots, ret[2][1])) =>
           LET it == iter(to_parent, snapshots, db, ret[2][1]) IN
           /\ it[1] = "ok"
           /\ Agree(ret[3], DecodedItems(Drain(it[2])), ret[2][2])
    /\ (live_iter # None /\ ret[1] = "next" /\ ret[3] = Ok(None)) =>
           \A key \in Fields :
               Agree(get(to_parent, snapshots, db, ret[2][1], key), typed_yielded, key)

\* C28 happens: get returned the value an ancestor puts under a key that the
\* DB holds with another value, and the iterator of the id yields that pair only.
C28_Witness ==
    /\ ret[1] = "get" /\ ret[3][1] = "ok" /\ ret[3][2] # None
    /\ AllRegistered(to_parent, snapshots, ret[2][1])
    /\ AncestorChain(to_parent, ret[2][1]) # <<>>
    /\ ret[2][2] \in DOMAIN typed_db[DUMMY_STATE_CF]
    /\ typed_db[DUMMY_STATE_CF][ret[2][2]] # ret[3][2][1]
    /\ DecodedItems(Drain(iter(to_parent, snapshots, db, ret[2][1])[2]))
           = << <<ret[2][2], ret[3][2][1]>> >>

\* The graph without the entries that point to the snapshot X.
RemoveEdgesTo(graph, X) ==
    [child \in {c \in DOMAIN graph : graph[c] # X} |-> graph[child]]

\* The DB after the snapshots of the chain (nearest first) were committed from
\* the farthest to the nearest, every write succeeding.
RECURSIVE CommitChain(_, _, _)
CommitChain(snaps, store, chain) ==
    IF chain = <<>> THEN store
    ELSE LET r == commit_snapshot(snaps, store, chain[Len(chain)], TRUE)
         IN  CommitChain(r[2], r[3], SubSeq(chain, 1, Len(chain) - 1))

\* The (key, value) pairs a column family holds, decoded.
Pairs(cf) == {<<key, DecodedCf(cf)[key]>> : key \in DOMAIN DecodedCf(cf)}

\* C29: a successful commit_snapshot(X) of a snapshot without a graph entry,
\* followed by the removal of the graph entries that point to X, leaves get(id, k)
\* as it was for every key and every id whose registered ancestor chain ends in
\* X; and committing the ancestor chain of an id from the farthest ancestor to
\* the nearest makes the DB hold exactly the view of the id.
C29_CommitPreservesView ==
    /\ [][(ret'[1] = "commit_snapshot" /\ ret'[3] = Ok(Unit)) =>
            LET X == ret'[2][1] IN
            X \notin DOMAIN to_parent =>
                \A id \in SnapshotIds :
                    LET chain == AncestorChain(to_parent, id) IN
                    (/\ chain # <<>> /\ chain[Len(chain)] = X
                     /\ AllRegistered(to_parent, snapshots, id))
                    => \A k \in Fields :
                          get(RemoveEdgesTo(to_parent', X), snapshots', db', id, k)
                              = get(to_parent, snapshots, db, id, k)]_vars
    /\ [](\A id \in SnapshotIds :
             AllRegistered(to_parent, snapshots, id) =>
                 Pairs(CommitChain(snapshots, db,
                                   AncestorChain(to_parent, id))[DUMMY_STATE_CF])
                     = View(to_parent, typed_snapshots, typed_db, id))

\* C29 happens: the farthest of two registered ancestors of an id was committed
\* into the DB while the graph still leads to it.
C29_Witness ==
    /\ ret[1] = "commit_snapshot" /\ ret[3] = Ok(Unit) /\ ret[4]
    /\ ret[2][1] \notin DOMAIN to_parent
    /\ db[DUMMY_STATE_CF] # <<>>
    /\ \E id \in SnapshotIds :
          LET chain == AncestorChain(to_parent, id) IN
          /\ Len(chain) = 2 /\ chain[2] = ret[2][1]
          /\ chain[1] \in DOMAIN snapshots

\* The operations of the SnapshotManager that change its registry, and those that
\* only read.
RegistryWriters == {"add_snapshot", "discard_snapshot", "commit_snapshot"}
RegistryReaders == {"get", "iter", "contains_snapshot"}

\* C30: add_snapshot(X), discard_snapshot(X) and commit_snapshot(X) leave every
\* registered snapshot other than X registered with the same operations and
\* register no id other than X; get, iter and contains_snapshot leave the registry
\* as it was; and no operation of the SnapshotManager changes the graph, so an
\* entry that names a terminated id stays until the orchestrator writes the graph.
C30_OnlyAddressedEntry ==
    [][/\ ret'[1] \in RegistryWriters =>
            /\ DOMAIN snapshots' \ {ret'[2][1]} = DOMAIN snapshots \ {ret'[2][1]}
            /\ \A Y \in DOMAIN snapshots \ {ret'[2][1]} : snapshots'[Y] = snapshots[Y]
       /\ ret'[1] \in RegistryReaders => snapshots' = snapshots
       /\ ret'[1] \in RegistryWriters \cup RegistryReaders => to_parent' = to_parent
      ]_vars

\* C30 happens: a registered snapshot was discarded while another snapshot holding
\* an operation is registered and a graph entry still names the discarded id.
C30_Witness ==
    /\ ret[1] = "discard_snapshot" /\ ret[4]
    /\ ret[2][1] \notin DOMAIN snapshots
    /\ \E Y \in DOMAIN snapshots : snapshots[Y] # <<>>
    /\ \E child \in DOMAIN to_parent : to_parent[child] = ret[2][1]

====
